---- MODULE Spec2Model ----
(***************************************************************************)
(* The per-tablet Reader of be/src/olap/reader.cpp: the CollectIterator    *)
(* (merge heap or child concatenation over segment cursors), the scan-range *)
(* driver _attach_data_to_merge_set, the three row-production policies and  *)
(* the Reader lifetime (init, next_row, close, destructor).                 *)
(*                                                                         *)
(* A full key is one integer column; a row is [key, val, seg] where seg is  *)
(* the index of the segment (ColumnData) it was read from.                  *)
(***************************************************************************)
EXTENDS Integers, Sequences, FiniteSets, Bags, TLC

(***************************************************************************)
(* Bounds of the model.                                                     *)
(***************************************************************************)
MaxKey == 2
\* rows of a tablet, over all its segments
MaxTotalRows == 3
\* scan ranges of one scan, and of the scans that show what happens between ranges
MaxRanges == 1
ManyRanges == 3
\* rows of one RowBlock
BlockRows == 1
\* config::doris_scanner_row_num, scaled down so that the cap is reachable
doris_scanner_row_num == 0

NULL == 0

\* MAX_OP_IN_FIELD_NUM, the operand count from which an IN condition no
\* longer selects its column for the bloom filter (scaled down)
MAX_OP_IN_FIELD_NUM == 3

Keys == 1..MaxKey

\* OLAPStatus values that occur in the modelled paths
OLAP_SUCCESS == "OLAP_SUCCESS"
OLAP_ERR_DATA_EOF == "OLAP_ERR_DATA_EOF"
OLAP_ERR_VERSION_NOT_EXIST == "OLAP_ERR_VERSION_NOT_EXIST"
OLAP_ERR_INPUT_PARAMETER_ERROR == "OLAP_ERR_INPUT_PARAMETER_ERROR"
OLAP_ERR_READER_GET_ITERATOR_ERROR == "OLAP_ERR_READER_GET_ITERATOR_ERROR"
OLAP_ERR_MALLOC_ERROR == "OLAP_ERR_MALLOC_ERROR"
OLAP_ERR_IO == "OLAP_ERR_IO"

KeysTypes == {"DUP_KEYS", "UNIQUE_KEYS", "AGG_KEYS"}
ReaderTypes == {"READER_QUERY", "READER_ALTER_TABLE", "READER_BASE_COMPACTION",
                "READER_CUMULATIVE_COMPACTION", "READER_CHECKSUM"}

DEL_SATISFIED == "DEL_SATISFIED"
DEL_PARTIAL_SATISFIED == "DEL_PARTIAL_SATISFIED"
DEL_NOT_SATISFIED == "DEL_NOT_SATISFIED"

VARIABLES
    tablet,   \* OLAPTable: keys_type, segments, delete predicates, header lock
    params,   \* ReaderParams handed to Reader::init
    reader,   \* the Reader object's fields, including its CollectIterator
    pc,       \* position in the Reader's lifetime
    mem,      \* heap objects and segment holds: how often each was freed
    hist      \* history of what the Reader delivered (observation only)

vars == <<tablet, params, reader, pc, mem, hist>>

(***************************************************************************)
(* Small helpers.                                                           *)
(***************************************************************************)
Min(a, b) == IF a < b THEN a ELSE b

RECURSIVE Pow2(_)
Pow2(n) == IF n = 0 THEN 1 ELSE 2 * Pow2(n - 1)

RECURSIVE SeqSum(_)
SeqSum(s) == IF s = <<>> THEN 0 ELSE Head(s) + SeqSum(Tail(s))

RECURSIVE SeqToBag(_)
SeqToBag(s) == IF s = <<>> THEN EmptyBag ELSE SetToBag({Head(s)}) (+) SeqToBag(Tail(s))

IsSorted(ks) == \A i \in 1..(Len(ks) - 1) : ks[i] <= ks[i + 1]

\* all non-descending key sequences of length 0..n
SortedKeySeqs(n) == {ks \in UNION {[1..m -> Keys] : m \in 0..n} : IsSorted(ks)}

(***************************************************************************)
(* Segment (ColumnData) collaborator.                                       *)
(***************************************************************************)
\* the i-th row of segment s; values are distinct powers of two, so a SUM
\* tells which physical rows were folded into it
SegRow(tb, s, i) ==
    [key |-> tb.segs[s].keys[i], val |-> Pow2((s - 1) * MaxTotalRows + (i - 1)), seg |-> s]

SegRows(tb, s) == [i \in 1..Len(tb.segs[s].keys) |-> SegRow(tb, s, i)]

\* ColumnData::version().second
SegVersion(tb, s) == tb.segs[s].version

\* RowCursor::cmp / full_key_cmp on the single key column
full_key_cmp(a, b) == IF a < b THEN -1 ELSE IF a > b THEN 1 ELSE 0

\* DeleteHandler::is_filter_data(version, row)
is_filter_data(dh, version, row) ==
    \E c \in dh : c.version <= version /\ c.key = row.key

\* does a row lie inside [start_key, end_key] under the two inclusion flags
InBounds(k, start_key, find_last_row, end_key, end_key_find_last_row) ==
    /\ \/ start_key = NULL
       \/ IF find_last_row THEN k > start_key ELSE k >= start_key
    /\ \/ end_key = NULL
       \/ IF end_key_find_last_row THEN k <= end_key ELSE k < end_key

\* ColumnData::prepare_block_read: the rows of the segment inside the bounds,
\* OLAP_ERR_DATA_EOF when there is none
prepare_block_read(tb, s, start_key, find_last_row, end_key, end_key_find_last_row) ==
    LET In(r) == InBounds(r.key, start_key, find_last_row, end_key, end_key_find_last_row)
        rows == SelectSeq(SegRows(tb, s), In)
    IN  IF rows = <<>>
        THEN [res |-> OLAP_ERR_DATA_EOF, rows |-> <<>>]
        ELSE [res |-> OLAP_SUCCESS, rows |-> rows]

(***************************************************************************)
(* CollectIterator::ChildCtx: the cursor over one segment's row blocks.    *)
(* rows is the stream prepare_block_read positioned; the current RowBlock  *)
(* ends at blk_hi, pos is the block position, has_cur tells whether        *)
(* _current_row is non-null.                                                *)
(***************************************************************************)
\* a cursor that does not take over the segment's delete flag
ChildCtx_never_deleted(tb, s, rows) ==
    [data |-> s,
     is_delete |-> FALSE,
     rows |-> rows,
     blk_hi |-> Min(BlockRows, Len(rows)),
     pos |-> 1,
     has_cur |-> FALSE]

ChildCtx(tb, s, rows) ==
    [data |-> s,
     is_delete |-> tb.segs[s].delete_flag,
     rows |-> rows,
     blk_hi |-> Min(BlockRows, Len(rows)),
     pos |-> 1,
     has_cur |-> FALSE]

\* RowBlock::block_status(): the delete status Reader set on the segment
block_status(rd, s) == rd.delete_status[s]

\* a cursor that asks no delete predicate
_refresh_current_row_unfiltered(tb, rd, c, nfilt) ==
    IF c.pos <= Len(c.rows)
    THEN [c |-> [c EXCEPT !.has_cur = TRUE, !.blk_hi = Len(c.rows)],
          res |-> OLAP_SUCCESS, nfilt |-> nfilt]
    ELSE [c |-> [c EXCEPT !.has_cur = FALSE], res |-> OLAP_ERR_DATA_EOF, nfilt |-> nfilt]

RECURSIVE _refresh_current_row(_, _, _, _)
_refresh_current_row(tb, rd, c, nfilt) ==
    IF c.pos <= c.blk_hi
    THEN \* _row_block->has_remaining()
         IF /\ block_status(rd, c.data) = DEL_PARTIAL_SATISFIED
            /\ is_filter_data(rd.delete_handler, SegVersion(tb, c.data), c.rows[c.pos])
         THEN _refresh_current_row(tb, rd, [c EXCEPT !.pos = @ + 1], nfilt + 1)
         ELSE [c |-> [c EXCEPT !.has_cur = TRUE], res |-> OLAP_SUCCESS, nfilt |-> nfilt]
    ELSE \* ColumnData::get_next_block
         IF c.blk_hi < Len(c.rows)
         THEN _refresh_current_row(tb, rd,
                  [c EXCEPT !.blk_hi = Min(@ + BlockRows, Len(c.rows)), !.pos = c.blk_hi + 1],
                  nfilt)
         ELSE [c |-> [c EXCEPT !.has_cur = FALSE], res |-> OLAP_ERR_DATA_EOF, nfilt |-> nfilt]

\* ChildCtx::init
ChildCtx_init(tb, rd, c) == _refresh_current_row(tb, rd, c, 0)

\* ChildCtx::current_row(): the row under the cursor (has_cur tells non-null)
ChildCtx_current_row(c) == c.rows[c.pos]

\* ChildCtx::version
ChildCtx_version(tb, c) == SegVersion(tb, c.data)

\* ChildCtx::next
ChildCtx_next(tb, rd, c) == _refresh_current_row(tb, rd, [c EXCEPT !.pos = @ + 1], 0)

(***************************************************************************)
(* CollectIterator.  A ChildCtx* is the index of the child in _children    *)
(* (NULL = 0); _heap is the bag of such indexes that were pushed and not     *)
(* popped, its top is the std::priority_queue top: the element no other    *)
(* element is ordered after.                                                *)
(***************************************************************************)
\* a comparator with the key comparison turned round
ChildCtxComparator_descending(tb, a, b) ==
    LET cmp_res == full_key_cmp(a.rows[a.pos].key, b.rows[b.pos].key)
    IN  IF cmp_res # 0
        THEN cmp_res < 0
        ELSE SegVersion(tb, a.data) > SegVersion(tb, b.data)

\* a comparator with the version comparison turned round
ChildCtxComparator_newer_first(tb, a, b) ==
    LET cmp_res == full_key_cmp(a.rows[a.pos].key, b.rows[b.pos].key)
    IN  IF cmp_res # 0
        THEN cmp_res > 0
        ELSE SegVersion(tb, a.data) < SegVersion(tb, b.data)

\* ChildCtxComparator::operator()(a, b)
ChildCtxComparator(tb, a, b) ==
    LET first == ChildCtx_current_row(a)
        second == ChildCtx_current_row(b)
        cmp_res == full_key_cmp(first.key, second.key)
    IN  IF cmp_res # 0
        THEN cmp_res > 0
        ELSE ChildCtx_version(tb, a) > ChildCtx_version(tb, b)

\* a heap that hands out the child added last
MergeHeap_last(tb, children, heap) ==
    CHOOSE t \in heap : \A u \in heap : u <= t

\* MergeHeap::top(): comp(top, x) is false for every other element x
MergeHeap_top(tb, children, heap) ==
    CHOOSE t \in heap : \A u \in heap \ {t} : ~ChildCtxComparator(tb, children[t], children[u])

\* a CollectIterator that keeps the _merge = true it is constructed with
CollectIterator_init_merge(tb, rd) ==
    [_merge |-> TRUE, _heap |-> EmptyBag, _children |-> <<>>, _cur_child |-> NULL,
     _child_idx |-> 0]

\* CollectIterator::init
CollectIterator_init(tb, rd) ==
    [_merge |-> ~(/\ rd._reader_type = "READER_QUERY"
                  /\ (rd._aggregation \/ tb.keys_type = "DUP_KEYS")),
     _heap |-> EmptyBag,
     _children |-> <<>>,
     _cur_child |-> NULL,
     _child_idx |-> 0]

\* CollectIterator::current_row: NULL or the current child
current_row(ci) == ci._cur_child

\* the row and the delete flag behind a non-null row pointer
RowOf(ci, p) == ChildCtx_current_row(ci._children[p])
DeleteFlagOf(ci, p) == ci._children[p].is_delete

\* an add_child that reports a cursor without a first row as OLAP_SUCCESS
add_child_ok(tb, rd, ci, s, rows) ==
    LET Inited(r) ==
            IF r.res = OLAP_ERR_DATA_EOF \/ (r.res = OLAP_SUCCESS /\ ~r.c.has_cur)
            THEN [ci |-> ci, res |-> OLAP_SUCCESS, nfilt |-> r.nfilt]
            ELSE IF r.res # OLAP_SUCCESS
            THEN [ci |-> ci, res |-> r.res, nfilt |-> r.nfilt]
            ELSE LET children == Append(ci._children, r.c)
                     heap == ci._heap (+) SetToBag({Len(children)})
                 IN  [ci |-> IF ci._merge
                             THEN [ci EXCEPT !._children = children,
                                             !._heap = heap,
                                             !._cur_child = MergeHeap_top(tb, children, BagToSet(heap))]
                             ELSE [ci EXCEPT !._children = children,
                                             !._cur_child = IF ci._cur_child = NULL
                                                            THEN ci._child_idx + 1
                                                            ELSE ci._cur_child],
                      res |-> OLAP_SUCCESS,
                      nfilt |-> r.nfilt]
    IN  Inited(ChildCtx_init(tb, rd, ChildCtx(tb, s, rows)))

\* an add_child that pushes the new child and leaves _cur_child where it was
add_child_keep_cur(tb, rd, ci, s, rows) ==
    LET Inited(r) ==
            IF r.res # OLAP_SUCCESS \/ ~r.c.has_cur
            THEN [ci |-> ci, res |-> r.res, nfilt |-> r.nfilt]
            ELSE LET children == Append(ci._children, r.c)
                 IN  [ci |-> [ci EXCEPT !._children = children,
                                        !._heap = IF ci._merge
                                                  THEN @ (+) SetToBag({Len(children)})
                                                  ELSE @,
                                        !._cur_child = IF ci._cur_child = NULL
                                                       THEN ci._child_idx + 1
                                                       ELSE ci._cur_child],
                      res |-> OLAP_SUCCESS,
                      nfilt |-> r.nfilt]
    IN  Inited(ChildCtx_init(tb, rd, ChildCtx(tb, s, rows)))

\* CollectIterator::add_child
add_child(tb, rd, ci, s, rows) ==
    LET \* r: the new child and the status of its init
        Inited(r) ==
            IF r.res # OLAP_SUCCESS
            THEN [ci |-> ci, res |-> r.res, nfilt |-> r.nfilt]
            ELSE IF ~r.c.has_cur
            THEN [ci |-> ci, res |-> OLAP_SUCCESS, nfilt |-> r.nfilt]
            ELSE LET children == Append(ci._children, r.c)
                     child_ptr == Len(children)
                     heap == ci._heap (+) SetToBag({child_ptr})
                 IN  [ci |-> IF ci._merge
                             THEN [ci EXCEPT !._children = children,
                                             !._heap = heap,
                                             !._cur_child = MergeHeap_top(tb, children, BagToSet(heap))]
                             ELSE [ci EXCEPT !._children = children,
                                             !._cur_child = IF ci._cur_child = NULL
                                                            THEN ci._child_idx + 1
                                                            ELSE ci._cur_child],
                      res |-> OLAP_SUCCESS,
                      nfilt |-> r.nfilt]
    IN  Inited(ChildCtx_init(tb, rd, ChildCtx(tb, s, rows)))

\* CollectIterator::_merge_next
_merge_next(tb, rd, ci) ==
    LET \* _cur_child = _heap.top(), *row = _cur_child->current_row()
        Top(children, heap, top, nfilt) ==
            [ci |-> [ci EXCEPT !._children = children, !._heap = heap, !._cur_child = top],
             res |-> OLAP_SUCCESS, row |-> top,
             delete_flag |-> children[top].is_delete, nfilt |-> nfilt]
        \* popped: the heap after _heap.pop(); r: the result of _cur_child->next()
        Advanced(popped, r) ==
            LET children == [ci._children EXCEPT ![ci._cur_child] = r.c]
            IN  IF r.res = OLAP_SUCCESS
                THEN Top(children, popped (+) SetToBag({ci._cur_child}),
                         MergeHeap_top(tb, children,
                                       BagToSet(popped) \cup {ci._cur_child}), r.nfilt)
                ELSE IF r.res = OLAP_ERR_DATA_EOF
                THEN IF BagCardinality(popped) > 0
                     THEN Top(children, popped,
                              MergeHeap_top(tb, children, BagToSet(popped)), r.nfilt)
                     ELSE [ci |-> [ci EXCEPT !._children = children, !._heap = popped,
                                             !._cur_child = NULL],
                           res |-> OLAP_ERR_DATA_EOF, row |-> NULL,
                           delete_flag |-> r.c.is_delete, nfilt |-> r.nfilt]
                ELSE [ci |-> [ci EXCEPT !._children = children, !._heap = popped],
                      res |-> r.res, row |-> NULL, delete_flag |-> r.c.is_delete,
                      nfilt |-> r.nfilt]
    IN  Advanced(ci._heap (-) SetToBag({MergeHeap_top(tb, ci._children, BagToSet(ci._heap))}),
                 ChildCtx_next(tb, rd, ci._children[ci._cur_child]))

\* a concat iterator that reports DATA_EOF as soon as its current child is
\* exhausted
_normal_next_one_child(tb, rd, ci) ==
    LET Advanced(r) ==
            [ci |-> [ci EXCEPT !._children = [@ EXCEPT ![ci._cur_child] = r.c],
                               !._cur_child = IF r.res = OLAP_SUCCESS THEN @ ELSE NULL],
             res |-> r.res,
             row |-> IF r.res = OLAP_SUCCESS THEN ci._cur_child ELSE NULL,
             delete_flag |-> r.c.is_delete, nfilt |-> r.nfilt]
    IN  Advanced(ChildCtx_next(tb, rd, ci._children[ci._cur_child]))

\* CollectIterator::_normal_next
_normal_next(tb, rd, ci) ==
    LET \* r: the result of _cur_child->next()
        Advanced(r) ==
            LET children == [ci._children EXCEPT ![ci._cur_child] = r.c]
                child_idx == ci._child_idx + 1
            IN  IF r.res = OLAP_SUCCESS
                THEN [ci |-> [ci EXCEPT !._children = children],
                      res |-> OLAP_SUCCESS, row |-> ci._cur_child,
                      delete_flag |-> r.c.is_delete, nfilt |-> r.nfilt]
                ELSE IF r.res = OLAP_ERR_DATA_EOF
                THEN IF child_idx < Len(children)
                     THEN [ci |-> [ci EXCEPT !._children = children, !._child_idx = child_idx,
                                             !._cur_child = child_idx + 1],
                           res |-> OLAP_SUCCESS, row |-> child_idx + 1,
                           delete_flag |-> children[child_idx + 1].is_delete,
                           nfilt |-> r.nfilt]
                     ELSE [ci |-> [ci EXCEPT !._children = children, !._child_idx = child_idx,
                                             !._cur_child = NULL],
                           res |-> OLAP_ERR_DATA_EOF, row |-> NULL,
                           delete_flag |-> r.c.is_delete, nfilt |-> r.nfilt]
                ELSE [ci |-> [ci EXCEPT !._children = children],
                      res |-> r.res, row |-> NULL, delete_flag |-> r.c.is_delete,
                      nfilt |-> r.nfilt]
    IN  Advanced(ChildCtx_next(tb, rd, ci._children[ci._cur_child]))

\* what a call of CollectIterator::next without a current child comes to:
\* the DCHECK fails, or the null pointer is followed
DCHECK_FAILED == "DCHECK_FAILED"

\* CollectIterator::next
next(tb, rd, ci) ==
    IF ci._cur_child = NULL
    THEN [ci |-> ci, res |-> DCHECK_FAILED, row |-> NULL, delete_flag |-> FALSE, nfilt |-> 0]
    ELSE IF ci._merge THEN _merge_next(tb, rd, ci) ELSE _normal_next(tb, rd, ci)

\* CollectIterator::clear
clear(ci) ==
    [ci EXCEPT !._heap = EmptyBag, !._children = <<>>, !._cur_child = NULL, !._child_idx = 0]

(***************************************************************************)
(* Tablet schema: column 0 is the key column, column 1 the value column.   *)
(* The value column aggregates with SUM on AGG_KEYS and REPLACE on         *)
(* UNIQUE_KEYS; DUP_KEYS rows are never aggregated.                         *)
(***************************************************************************)
SchemaCols == <<0, 1>>
is_key(cid) == cid = 0

InSeq(x, s) == \E i \in 1..Len(s) : s[i] = x

\* RowCursor::equal(_key_cids, a, b): equality on the projected key columns
RowCursor_equal(key_cids, a, b) == \A i \in 1..Len(key_cids) : a.key = b.key

\* RowCursor::agg_init(row): the output cursor starts as a copy of the row
agg_init(row) == [key |-> row.key, val |-> row.val, finalized |-> 0]

\* RowCursor::aggregate(_value_cids, dst, src)
aggregate(tb, value_cids, dst, src) ==
    IF value_cids = <<>> THEN dst
    ELSE IF tb.keys_type = "AGG_KEYS" THEN [dst EXCEPT !.val = @ + src.val]
    ELSE [dst EXCEPT !.val = src.val]

\* RowCursor::finalize_one_merge(_value_cids)
finalize_one_merge(dst) == [dst EXCEPT !.finalized = @ + 1]

(***************************************************************************)
(* Reader.  An operator of the Reader works on st = [rd, h]: rd the fields  *)
(* of the Reader, h the history of what it delivered.                       *)
(***************************************************************************)
\* what the merge heap of a CollectIterator looks like between two calls:
\* every entry once, every entry a child with a current row, _cur_child the
\* entry every other entry is ordered after, or NULL over an empty heap
HeapInvariant(tb, ci) ==
    ci._merge =>
        /\ \A c \in BagToSet(ci._heap) :
               /\ CopiesIn(c, ci._heap) = 1
               /\ c \in 1..Len(ci._children)
               /\ ci._children[c].has_cur
        /\ IF BagToSet(ci._heap) = {}
           THEN ci._cur_child = NULL
           ELSE /\ ci._cur_child \in BagToSet(ci._heap)
                /\ \A u \in BagToSet(ci._heap) \ {ci._cur_child} :
                       ChildCtxComparator(tb, ci._children[u], ci._children[ci._cur_child])

\* a call of next that leaves _next_key as it was when the data ran out
TakeNext_keep_key(tb, st, r) ==
    [rd |-> [st.rd EXCEPT !.ci = r.ci,
                          !._next_key = IF r.res = OLAP_ERR_DATA_EOF THEN @ ELSE r.row,
                          !._next_delete_flag = r.delete_flag,
                          !._stats.rows_del_filtered = @ + r.nfilt],
     h |-> [st.h EXCEPT !.cursor_filtered = @ + r.nfilt,
                        !.data_eof = @ \/ r.res = OLAP_ERR_DATA_EOF,
                        !.dcheck_ok = @ /\ st.rd.ci._cur_child # NULL,
                        !.delivered = IF r.res = OLAP_SUCCESS
                                      THEN Append(@, [row |-> RowOf(r.ci, r.row),
                                                      range |-> st.h.range])
                                      ELSE @]]

\* fold the result r of a CollectIterator::next(&_next_key, &_next_delete_flag)
\* call into the Reader
TakeNext(tb, st, r) ==
    [rd |-> [st.rd EXCEPT !.ci = r.ci,
                          !._next_key = r.row,
                          !._next_delete_flag = r.delete_flag,
                          !._stats.rows_del_filtered = @ + r.nfilt],
     h |-> [st.h EXCEPT !.cursor_filtered = @ + r.nfilt,
                        !.data_eof = @ \/ r.res = OLAP_ERR_DATA_EOF,
                        !.dcheck_ok = @ /\ st.rd.ci._cur_child # NULL,
                        !.heap_ok = @ /\ (r.res \in {OLAP_SUCCESS, OLAP_ERR_DATA_EOF} =>
                                              HeapInvariant(tb, r.ci)),
                        !.delivered = IF r.res = OLAP_SUCCESS
                                      THEN Append(@, [row |-> RowOf(r.ci, r.row),
                                                      range |-> st.h.range])
                                      ELSE @]]

\* a loop that reads no segment
AttachDataSources_none(tb, st, i, start_key, find_last_row, end_key, end_key_find_last_row) ==
    [st |-> st, res |-> OLAP_SUCCESS]

\* the loop over _data_sources of _attach_data_to_merge_set, from the i-th on
RECURSIVE AttachDataSources(_, _, _, _, _, _, _)
AttachDataSources(tb, st, i, start_key, find_last_row, end_key, end_key_find_last_row) ==
    IF i > Len(st.rd._data_sources)
    THEN [st |-> st, res |-> OLAP_SUCCESS]
    ELSE LET data == st.rd._data_sources[i]
             h1 == [st.h EXCEPT !.seek_under_lock = @ \/ st.rd.header_lock.held > 0,
                                !.seeks = Append(@, [seg |-> data, range |-> st.h.range,
                                                     start_key |-> start_key,
                                                     find_last_row |-> find_last_row,
                                                     end_key |-> end_key,
                                                     end_key_find_last_row |-> end_key_find_last_row])]
             \* a: the result of _collect_iter->add_child(data, block)
             Added(a) ==
                 LET st1 == [rd |-> [st.rd EXCEPT !.ci = a.ci,
                                                  !._stats.rows_del_filtered = @ + a.nfilt],
                             h |-> [h1 EXCEPT !.cursor_filtered = @ + a.nfilt,
                                              !.data_eof = @ \/ a.res = OLAP_ERR_DATA_EOF,
                                              !.heap_ok = @ /\ HeapInvariant(tb, a.ci),
                                              !.add_child =
                                                  Append(@, [seek |-> Len(h1.seeks),
                                                             res |-> a.res,
                                                             unchanged |-> a.ci = st.rd.ci])]]
                 IN  IF a.res # OLAP_SUCCESS /\ a.res # OLAP_ERR_DATA_EOF
                     THEN [st |-> st1, res |-> a.res]
                     ELSE AttachDataSources(tb, st1, i + 1, start_key, find_last_row,
                                            end_key, end_key_find_last_row)
             \* b: the result of data->prepare_block_read(...)
             Read(b) ==
                 IF b.res = OLAP_SUCCESS
                 THEN Added(add_child(tb, st.rd, st.rd.ci, data, b.rows))
                 ELSE IF b.res = OLAP_ERR_DATA_EOF
                 THEN AttachDataSources(tb, [st EXCEPT !.h = [h1 EXCEPT !.data_eof = TRUE]],
                                        i + 1, start_key,
                                        find_last_row, end_key, end_key_find_last_row)
                 ELSE [st |-> [st EXCEPT !.h = h1], res |-> b.res]
         IN  Read(IF [seg |-> data, range |-> st.h.range] \in tb.io_fault
                  THEN [res |-> OLAP_ERR_IO, rows |-> <<>>]
                  ELSE prepare_block_read(tb, data, start_key, find_last_row,
                                          end_key, end_key_find_last_row))

\* a range check that never finds a range empty
EarlyEof_never(range, start_key, end_key) == FALSE

\* the checks of _attach_data_to_merge_set that end the attach with *eof = true
\* before any segment is read: the range cannot hold a key
EarlyEof(range, start_key, end_key) ==
    /\ end_key # NULL
    /\ \/ range = "gt" /\ full_key_cmp(start_key, end_key) >= 0
       \/ range = "ge" /\ full_key_cmp(start_key, end_key) > 0

\* what _attach_data_to_merge_set returns: the status and *eof
AttachResult(s, res, eof) == [st |-> s, res |-> res, eof |-> eof]

RECURSIVE _attach_data_to_merge_set(_, _, _)

\* the segment loop and the tail of the do-while body of
\* _attach_data_to_merge_set
RECURSIVE AttachRange(_, _, _, _, _, _)
AttachRange(tb, s, start_key, find_last_row, end_key, end_key_find_last_row) ==
    LET \* a: the Reader and the status after the loop over _data_sources
        Attached(a) ==
            LET p == current_row(a.st.rd.ci)
                s2 == [rd |-> [a.st.rd EXCEPT
                                 !._next_key = p,
                                 !._next_delete_flag =
                                     IF p # NULL THEN DeleteFlagOf(a.st.rd.ci, p) ELSE @],
                       h |-> [a.st.h EXCEPT
                                 !.delivered = IF p # NULL
                                               THEN Append(@, [row |-> RowOf(a.st.rd.ci, p),
                                                               range |-> a.st.h.range])
                                               ELSE @]]
            IN  IF a.res # OLAP_SUCCESS THEN AttachResult(a.st, a.res, FALSE)
                ELSE IF p # NULL THEN AttachResult(s2, OLAP_SUCCESS, FALSE)
                ELSE _attach_data_to_merge_set(tb, s2, FALSE)
    IN  Attached(AttachDataSources(tb, s, 1, start_key, find_last_row,
                                   end_key, end_key_find_last_row))

\* a token check that looks at end_range whether or not there are end keys
BadToken_always(kp) ==
    \/ kp.end_range \notin {"lt", "le"}
    \/ kp.range \notin {"gt", "ge", "eq"}

\* the token checks of _attach_data_to_merge_set: end_range is looked at only
\* when there are end keys
BadToken(kp) ==
    \/ Len(kp.end_keys) # 0 /\ kp.end_range \notin {"lt", "le"}
    \/ kp.range \notin {"gt", "ge", "eq"}

\* bounds that take the end key and its flag as given for every range token
ResolveBounds_as_given(kp, cur_key_index) ==
    LET has_end == Len(kp.end_keys) # 0
    IN  [start_key |-> kp.start_keys[cur_key_index + 1],
         find_last_row |-> kp.range = "gt",
         end_key |-> IF has_end THEN kp.end_keys[cur_key_index + 1] ELSE NULL,
         end_key_find_last_row |-> has_end /\ kp.end_range = "le"]

\* the bounds _attach_data_to_merge_set hands to prepare_block_read for the
\* scan range at cur_key_index, the range tokens being known
ResolveBounds(kp, cur_key_index) ==
    LET start_key == kp.start_keys[cur_key_index + 1]
        has_end == Len(kp.end_keys) # 0
        end_key == IF has_end THEN kp.end_keys[cur_key_index + 1] ELSE NULL
        end_key_find_last_row == has_end /\ kp.end_range = "le"
    IN  [start_key |-> start_key,
         find_last_row |-> kp.range = "gt",
         end_key |-> IF kp.range = "eq" THEN start_key ELSE end_key,
         end_key_find_last_row |-> IF kp.range = "eq" THEN TRUE ELSE end_key_find_last_row]

\* Reader::_attach_data_to_merge_set(first, &eof)
_attach_data_to_merge_set(tb, st0, first) ==
    LET kp == st0.rd._keys_param
        st == [st0 EXCEPT !.rd.ci = clear(@),
                          !.h.heap_ok = @ /\ HeapInvariant(tb, clear(st0.rd.ci))]
        cur_key_index == st.rd._next_key_index
        s1 == [rd |-> [st.rd EXCEPT !._next_key_index = @ + 1],
               h |-> [st.h EXCEPT !.range = cur_key_index + 1,
                                  !.attached = Append(@, cur_key_index + 1),
                                  !.end_key_reads =
                                      IF Len(kp.end_keys) # 0
                                      THEN @ \cup {[step |-> "_attach_data_to_merge_set",
                                                    index |-> cur_key_index + 1]}
                                      ELSE @]]
        start_key == kp.start_keys[cur_key_index + 1]
        has_end == Len(kp.end_keys) # 0
        end_key == IF has_end THEN kp.end_keys[cur_key_index + 1] ELSE NULL
        bounds == ResolveBounds(kp, cur_key_index)
        \* the range tokens are known and the range is not inverted
        bad_token == BadToken(kp)
        early_eof == EarlyEof(kp.range, start_key, end_key)
    IN  IF Len(kp.start_keys) > 0
        THEN IF st.rd._next_key_index >= Len(kp.start_keys)
             THEN AttachResult(st, OLAP_SUCCESS, TRUE)
             ELSE IF bad_token
             THEN AttachResult(s1, OLAP_ERR_READER_GET_ITERATOR_ERROR, FALSE)
             ELSE IF early_eof
             THEN AttachResult(s1, OLAP_SUCCESS, TRUE)
             ELSE AttachRange(tb, s1, bounds.start_key, bounds.find_last_row,
                              bounds.end_key, bounds.end_key_find_last_row)
        ELSE IF first = FALSE
        THEN AttachResult(st, OLAP_SUCCESS, TRUE)
        ELSE AttachRange(tb, [st EXCEPT !.h.range = 0, !.h.attached = Append(@, 0)],
                         NULL, FALSE, NULL, FALSE)

(***************************************************************************)
(* The three row-production policies.  Each returns the Reader after the   *)
(* call, the status, eof and, in h.groups, the output row it built: the     *)
(* physical rows absorbed, the row cursor and whether it was returned.      *)
(***************************************************************************)
Group(st, first_row, rows, cursor, merged_count, del, returned) ==
    [key |-> first_row.key, rows |-> rows, cursor |-> cursor,
     merged_count |-> merged_count, delete_flag |-> del,
     returned |-> returned, range |-> st.h.range]

EndGroup(st, g) == [st EXCEPT !.h.groups = Append(@, g)]

Result(st, res, eof) == [st |-> st, res |-> res, eof |-> eof]

\* a policy that hands the status of _collect_iter->next on as it is
AbsorbEof_surfaced(res) == res

\* "if (res != OLAP_SUCCESS) { if (res != OLAP_ERR_DATA_EOF) { return res; } }"
\* after _collect_iter->next: the status the policy goes on with
AbsorbEof(res) == IF res = OLAP_ERR_DATA_EOF THEN OLAP_SUCCESS ELSE res

\* Reader::_dup_key_next_row
_dup_key_next_row(tb, st0) ==
    LET \* row_cursor->copy_without_pool(*_next_key), then r: the result of
        \* _collect_iter->next(&_next_key, &_next_delete_flag)
        Copied(st, r) ==
            LET src == RowOf(st.rd.ci, st.rd._next_key)
                row_cursor == [key |-> src.key, val |-> src.val, finalized |-> 0]
                st1 == TakeNext(tb, st, r)
                g == Group(st, src, <<src>>, row_cursor, 0, st.rd._next_delete_flag, TRUE)
            IN  IF AbsorbEof(r.res) # OLAP_SUCCESS
                THEN Result(st1, AbsorbEof(r.res), FALSE)
                ELSE Result(EndGroup(st1, g), OLAP_SUCCESS, FALSE)
        \* a: the Reader, the status and eof after the attach, if there was one
        Attached(a) ==
            IF a.res # OLAP_SUCCESS THEN Result(a.st, a.res, a.eof)
            ELSE IF a.eof THEN Result(a.st, OLAP_SUCCESS, TRUE)
            ELSE Copied(a.st, next(tb, a.st.rd, a.st.rd.ci))
    IN  Attached(IF st0.rd._next_key = NULL
                 THEN _attach_data_to_merge_set(tb, st0, FALSE)
                 ELSE [st |-> st0, res |-> OLAP_SUCCESS, eof |-> FALSE])

\* a Reader without the row cap
RowCapReached_never(rd, merged_count) == FALSE

\* _aggregation && merged_count > config::doris_scanner_row_num
RowCapReached(rd, merged_count) ==
    rd._aggregation /\ merged_count > doris_scanner_row_num

\* a loop that ends the output row at the first row that follows, equal key
\* or not
AggLoop_no_merge(tb, st, first_row, row_cursor, merged_count, rows) ==
    LET Took(r) ==
            LET st1 == TakeNext(tb, st, r)
            IN  IF r.res # OLAP_SUCCESS /\ r.res # OLAP_ERR_DATA_EOF
                THEN Result(st1, r.res, FALSE)
                ELSE Result(EndGroup(st1, Group(st1, first_row, rows,
                                                finalize_one_merge(row_cursor),
                                                merged_count, FALSE, TRUE)),
                            OLAP_SUCCESS, FALSE)
    IN  Took(next(tb, st.rd, st.rd.ci))

\* the do-while loop of Reader::_agg_key_next_row
\* a loop that ends the output row at the row that follows and counts that
\* row as merged
AggLoop_miscounted(tb, st, first_row, row_cursor, merged_count, rows) ==
    LET Done(s, n) ==
            Result(EndGroup([s EXCEPT !.rd._merged_rows = @ + n],
                            Group(s, first_row, rows, finalize_one_merge(row_cursor),
                                  n, FALSE, TRUE)),
                   OLAP_SUCCESS, FALSE)
        Took(r) ==
            IF r.res = OLAP_SUCCESS
            THEN Done(TakeNext(tb, st, r), merged_count + 1)
            ELSE Done(TakeNext(tb, st, r), merged_count)
    IN  Took(next(tb, st.rd, st.rd.ci))

RECURSIVE AggLoop(_, _, _, _, _, _)
AggLoop(tb, st, first_row, row_cursor, merged_count, rows) ==
    LET \* the statements after the loop
        Done(s) ==
            Result(EndGroup([s EXCEPT !.rd._merged_rows = @ + merged_count],
                            Group(s, first_row, rows, finalize_one_merge(row_cursor),
                                  merged_count, FALSE, TRUE)),
                   OLAP_SUCCESS, FALSE)
        \* r: the result of _collect_iter->next(&_next_key, &_next_delete_flag)
        Took(r) ==
            LET st1 == TakeNext(tb, st, r)
                nk == RowOf(st1.rd.ci, st1.rd._next_key)
            IN  IF r.res # OLAP_SUCCESS
                THEN IF AbsorbEof(r.res) # OLAP_SUCCESS
                     THEN Result(st1, AbsorbEof(r.res), FALSE)
                     ELSE Done(st1)
                ELSE IF RowCapReached(st.rd, merged_count)
                THEN Done(st1)
                ELSE IF ~RowCursor_equal(st.rd._key_cids, row_cursor, nk)
                THEN Done(st1)
                ELSE AggLoop(tb, st1, first_row,
                             aggregate(tb, st.rd._value_cids, row_cursor, nk),
                             merged_count + 1, Append(rows, nk))
    IN  Took(next(tb, st.rd, st.rd.ci))

\* Reader::_agg_key_next_row
_agg_key_next_row(tb, st0) ==
    LET \* a: the Reader, the status and eof after the attach, if there was one
        Attached(a) ==
            LET src == RowOf(a.st.rd.ci, a.st.rd._next_key)
            IN  IF a.res # OLAP_SUCCESS THEN Result(a.st, a.res, a.eof)
                ELSE IF a.eof THEN Result(a.st, OLAP_SUCCESS, TRUE)
                ELSE AggLoop(tb, a.st, src, agg_init(src), 0, <<src>>)
    IN  Attached(IF st0.rd._next_key = NULL
                 THEN _attach_data_to_merge_set(tb, st0, FALSE)
                 ELSE [st |-> st0, res |-> OLAP_SUCCESS, eof |-> FALSE])

\* a loop that ends the output row at the first row that follows, equal key
\* or not
UniqueLoop_no_merge(tb, st, row_cursor, merged_count, cur_delete_flag, rows) ==
    LET Took(r) ==
            [st |-> TakeNext(tb, st, r),
             row_cursor |-> IF r.res = OLAP_SUCCESS THEN finalize_one_merge(row_cursor)
                            ELSE row_cursor,
             merged_count |-> merged_count, cur_delete_flag |-> cur_delete_flag,
             rows |-> rows,
             res |-> IF r.res = OLAP_ERR_DATA_EOF THEN OLAP_SUCCESS ELSE r.res]
    IN  Took(next(tb, st.rd, st.rd.ci))

\* the inner while loop of Reader::_unique_key_next_row; yields the state after
\* the loop, the row cursor, merged_count, cur_delete_flag and an early status
RECURSIVE UniqueLoop(_, _, _, _, _, _)
UniqueLoop(tb, st, row_cursor, merged_count, cur_delete_flag, rows) ==
    LET Out(s, rc, res) == [st |-> s, row_cursor |-> rc, merged_count |-> merged_count,
                            cur_delete_flag |-> cur_delete_flag, rows |-> rows, res |-> res]
        \* r: the result of _collect_iter->next(&_next_key, &_next_delete_flag)
        Took(r) ==
            LET st1 == TakeNext(tb, st, r)
                nk == RowOf(st1.rd.ci, st1.rd._next_key)
            IN  IF r.res # OLAP_SUCCESS
                THEN Out(st1, row_cursor, AbsorbEof(r.res))
                ELSE IF \/ tb.keys_type = "DUP_KEYS"
                        \/ RowCapReached(st.rd, merged_count)
                THEN Out(st1, finalize_one_merge(row_cursor), OLAP_SUCCESS)
                ELSE IF ~RowCursor_equal(st.rd._key_cids, row_cursor, nk)
                THEN Out(st1, finalize_one_merge(row_cursor), OLAP_SUCCESS)
                ELSE UniqueLoop(tb, st1, aggregate(tb, st.rd._value_cids, row_cursor, nk),
                                merged_count + 1, st1.rd._next_delete_flag, Append(rows, nk))
    IN  IF st.rd._next_key = NULL
        THEN Out(st, row_cursor, OLAP_SUCCESS)
        ELSE Took(next(tb, st.rd, st.rd.ci))

\* a policy that returns without reading a row and without reporting eof
_unique_key_next_row_idle(tb, st0) == Result(st0, OLAP_SUCCESS, FALSE)

\* Reader::_unique_key_next_row: the outer do-while loop
RECURSIVE _unique_key_next_row(_, _)
_unique_key_next_row(tb, st0) ==
    LET \* l: what the inner loop over the rows of one key left
        Merged(st, src, l) ==
            LET st1 == [l.st EXCEPT !.rd._merged_rows = @ + l.merged_count]
                g == Group(st, src, l.rows, l.row_cursor, l.merged_count,
                           l.cur_delete_flag, ~l.cur_delete_flag)
            IN  IF l.res # OLAP_SUCCESS THEN Result(l.st, l.res, FALSE)
                ELSE IF ~l.cur_delete_flag
                THEN Result(EndGroup(st1, g), OLAP_SUCCESS, FALSE)
                ELSE _unique_key_next_row(tb,
                         EndGroup([st1 EXCEPT !.rd._stats.rows_del_filtered = @ + 1], g))
        \* a: the Reader, the status and eof after the attach, if there was one
        Attached(a) ==
            LET src == RowOf(a.st.rd.ci, a.st.rd._next_key)
            IN  IF a.res # OLAP_SUCCESS THEN Result(a.st, a.res, a.eof)
                ELSE IF a.eof THEN Result(a.st, OLAP_SUCCESS, TRUE)
                ELSE Merged(a.st, src,
                            UniqueLoop(tb, a.st, agg_init(src), 0,
                                       a.st.rd._next_delete_flag, <<src>>))
    IN  Attached(IF st0.rd._next_key = NULL
                 THEN _attach_data_to_merge_set(tb, st0, FALSE)
                 ELSE [st |-> st0, res |-> OLAP_SUCCESS, eof |-> FALSE])

(***************************************************************************)
(* Reader initialisation.                                                   *)
(***************************************************************************)
\* FieldInfo::aggregation of a column: NONE on key columns and on DUP_KEYS
aggregation_none(tb, cid) == is_key(cid) \/ tb.keys_type = "DUP_KEYS"

\* Reader::_parse_to_predicate: non-null for a pushable condition
_parse_to_predicate(tb, cond) ==
    /\ aggregation_none(tb, cond.column)
    /\ cond.op \in {"*=", "<<", "<=", ">>", ">=", "is"}

\* Reader::_init_conditions_param: one ColumnPredicate per pushable condition
_init_conditions_param(tb, rd, p) ==
    [rd EXCEPT !._conditions = p.conditions,
               !._col_predicates =
                   SelectSeq(p.conditions, LAMBDA c : _parse_to_predicate(tb, c))]

\* OLAPTable::obtain_header_rdlock, on the read locks this Reader holds on
\* the tablet header
obtain_header_rdlock(rd) ==
    [rd EXCEPT !.header_lock.held = @ + 1, !.header_lock.obtained = @ + 1]

\* a tablet whose header lock is never given back
release_header_lock_never(rd) == rd

\* OLAPTable::release_header_lock
release_header_lock(rd) == [rd EXCEPT !.header_lock.held = @ - 1]

\* Reader::_init_delete_condition with DeleteHandler::init
_init_delete_condition(tb, rd, p) ==
    LET \* l: the Reader once the header lock is taken
        Locked(l) ==
            IF tb.fault = "delete_handler"
            THEN [rd |-> release_header_lock(l), res |-> OLAP_ERR_IO]
            ELSE [rd |-> release_header_lock(
                             [l EXCEPT !.delete_handler =
                                  {c \in tb.del_conds : c.version <= p.version}]),
                  res |-> OLAP_SUCCESS]
    IN  IF p.reader_type # "READER_CUMULATIVE_COMPACTION"
        THEN Locked(obtain_header_rdlock(rd))
        ELSE [rd |-> rd, res |-> OLAP_SUCCESS]

\* std::sort(_key_cids, std::greater) on at most the one key column
SortDesc(cids) == cids

\* a Reader that returns the columns it was given and no more
AppendMissing_none(cols, add) == cols

\* the columns a delete condition refers to, appended when not yet returned
RECURSIVE AppendMissing(_, _)
AppendMissing(cols, add) ==
    IF add = <<>> THEN cols
    ELSE AppendMissing(IF InSeq(Head(add), cols) THEN cols ELSE Append(cols, Head(add)),
                       Tail(add))

\* the columns the loaded delete conditions refer to, in the order
\* get_delete_conditions() and Conditions::columns() yield them: every delete
\* predicate of the model is on the key column
del_cond_columns(dh) == IF dh = {} THEN <<>> ELSE <<0>>

\* a Reader that takes params.return_columns as it is, whatever the reader
\* type
_init_return_columns_verbatim(tb, rd, p) ==
    [rd |-> [rd EXCEPT !._return_columns = p.return_columns,
                       !._key_cids = SelectSeq(p.return_columns, is_key),
                       !._value_cids = SelectSeq(p.return_columns, LAMBDA c : ~is_key(c))],
     res |-> OLAP_SUCCESS]

\* Reader::_init_return_columns
_init_return_columns(tb, rd, p) ==
    LET keys_of(cols) == SelectSeq(cols, is_key)
        vals_of(cols) == SelectSeq(cols, LAMBDA c : ~is_key(c))
        Ok(ret, src) == [rd |-> [rd EXCEPT !._return_columns = ret,
                                           !._key_cids = SortDesc(keys_of(src)),
                                           !._value_cids = vals_of(src)],
                         res |-> OLAP_SUCCESS]
    IN  IF p.reader_type = "READER_QUERY"
        THEN Ok(IF Cardinality(rd.delete_handler) # 0 /\ p.aggregation
                THEN AppendMissing(p.return_columns, del_cond_columns(rd.delete_handler))
                ELSE p.return_columns,
                p.return_columns)
        ELSE IF Len(p.return_columns) = 0
        THEN Ok(SchemaCols, SchemaCols)
        ELSE IF p.reader_type = "READER_CHECKSUM"
        THEN Ok(p.return_columns, p.return_columns)
        ELSE [rd |-> rd, res |-> OLAP_ERR_INPUT_PARAMETER_ERROR]

_init_keys_param(tb, rd, p) ==
    LET rd0 == [rd EXCEPT !._next_key_index = 0]
    IN  IF Len(p.start_key) = 0
        THEN [rd |-> rd0, res |-> OLAP_SUCCESS]
        ELSE IF tb.fault = "keys_param"
        THEN [rd |-> [rd0 EXCEPT !._keys_param.range = p.range,
                                 !._keys_param.end_range = p.end_range],
              res |-> OLAP_ERR_MALLOC_ERROR]
        ELSE [rd |-> [rd0 EXCEPT !._keys_param =
                         [range |-> p.range, end_range |-> p.end_range,
                          start_keys |-> p.start_key, end_keys |-> p.end_key]],
              res |-> OLAP_SUCCESS]

\* RowCursor::field_count of a scan key: every scan key of the model fills
\* the one key column of the schema
field_count(key) == 1

\* the largest field count among the keys of a list, m if none is larger
RECURSIVE max_key_column_count(_, _)
max_key_column_count(keys, m) ==
    IF keys = <<>> THEN m
    ELSE max_key_column_count(Tail(keys),
                              IF field_count(Head(keys)) > m THEN field_count(Head(keys))
                              ELSE m)

\* a Reader whose seek columns leave out the key prefix of the scan keys
_init_seek_columns_no_prefix(rd) ==
    [rd EXCEPT !._seek_columns =
        SelectSeq(SchemaCols,
                  LAMBDA i : \/ InSeq(i, rd._return_columns)
                             \/ \E j \in 1..Len(rd._conditions) : rd._conditions[j].column = i)]

\* Reader::_init_seek_columns
_init_seek_columns(rd) ==
    LET Pushed(n) ==
            [rd EXCEPT !._seek_columns =
                SelectSeq(SchemaCols,
                          LAMBDA i : \/ i < n
                                     \/ InSeq(i, rd._return_columns)
                                     \/ \E j \in 1..Len(rd._conditions) :
                                            rd._conditions[j].column = i)]
    IN  Pushed(max_key_column_count(rd._keys_param.start_keys \o rd._keys_param.end_keys, 0))

\* Cond::op of a pushed condition: "*=" is OP_EQ with one operand and OP_IN
\* with several
cond_op(c) ==
    IF c.op = "*=" THEN IF c.operands = 1 THEN "OP_EQ" ELSE "OP_IN" ELSE c.op

\* the smallest size among the tuples of a list, m if none is smaller
RECURSIVE min_scan_key_len(_, _)
min_scan_key_len(keys, m) ==
    IF keys = <<>> THEN m
    ELSE min_scan_key_len(Tail(keys), IF Len(Head(keys)) < m THEN Len(Head(keys)) ELSE m)

\* the j at which "for (; j < min_scan_key_len; ++j)" stops on one pair of
\* tuples: the first column on which they differ
RECURSIVE EqualPrefix(_, _, _, _)
EqualPrefix(start, end, j, len) ==
    IF j < len /\ start[j + 1] = end[j + 1] THEN EqualPrefix(start, end, j + 1, len)
    ELSE j

\* the reads of read_params.end_key[i] that lie beyond the end of end_key:
\* what the comparison loop may yield on them.  -1 stands for the process
\* dying on the read, j in 0..len for the loop stopping at column j
OOB_CRASH == -1
OobOutcomes(start_key, end_key, ncols) ==
    IF Len(start_key) <= Len(end_key) THEN {0}
    ELSE {OOB_CRASH} \cup (0..min_scan_key_len(start_key \o end_key, ncols))

\* the elements read_params.end_key[i] that the comparison loop of
\* _init_load_bf_columns reads: one for every start key, when the tuples
\* have a column to compare
EndKeyReads_load_bf(start_key, end_key, ncols) ==
    IF min_scan_key_len(start_key \o end_key, ncols) > 0
    THEN {[step |-> "_init_load_bf_columns", index |-> i] : i \in 1..Len(start_key)}
    ELSE {}

\* the loop over the scan keys of _init_load_bf_columns from the i-th pair
\* on: max_equal_index
RECURSIVE max_equal_index(_, _, _, _, _, _)
max_equal_index(start_key, end_key, i, len, oob, m) ==
    IF i > Len(start_key) THEN m
    ELSE LET Compared(j) ==
                 max_equal_index(start_key, end_key, i + 1, len, oob,
                                 IF m < j - 1 THEN j - 1 ELSE m)
         IN  Compared(IF i > Len(end_key) THEN oob
                      ELSE EqualPrefix(start_key[i], end_key[i], 0, len))

\* OLAPTable::get_field_type_by_index; the type read for index -1 does not
\* matter, erase(-1) removes nothing
get_field_type_by_index(tb, index) ==
    IF index >= 0 /\ index < Len(tb.schema) THEN tb.schema[index + 1].type
    ELSE "OLAP_FIELD_TYPE_UNKNOWN"

\* Reader::_init_load_bf_columns: the set _load_bf_columns; start_key and
\* end_key are lists of tuples
_init_load_bf_columns(tb, conditions, start_key, end_key, oob) ==
    LET with_cond == {conditions[i].column : i \in
                         {k \in 1..Len(conditions) :
                             \/ cond_op(conditions[k]) = "OP_EQ"
                             \/ /\ cond_op(conditions[k]) = "OP_IN"
                                /\ conditions[k].operands < MAX_OP_IN_FIELD_NUM}}
        with_bf == {c \in with_cond : tb.schema[c + 1].is_bf_column}
        Pruned(m) ==
            LET kept == {c \in with_bf : c >= m}
                type == get_field_type_by_index(tb, m)
            IN  IF \/ type \notin {"OLAP_FIELD_TYPE_VARCHAR", "OLAP_FIELD_TYPE_HLL"}
                   \/ m + 1 > tb.num_short_key_fields
                THEN kept \ {m}
                ELSE kept
    IN  Pruned(max_equal_index(start_key, end_key, 1,
                               min_scan_key_len(start_key \o end_key, Len(tb.schema)),
                               oob, -1))

\* the scan keys of read_params as tuples: each fills the key column
ScanTuples(keys) == [i \in 1..Len(keys) |-> <<keys[i]>>]

\* Reader::_init_params
_init_params(tb, rd0, p, oob) ==
    LET \* k: the result of _init_keys_param
        KeysInited(k) ==
            IF k.res # OLAP_SUCCESS THEN k
            ELSE [rd |-> [_init_seek_columns(k.rd) EXCEPT
                              !._collect_iter = 1,
                              !.ci = CollectIterator_init(tb, k.rd)],
                  res |-> OLAP_SUCCESS]
        \* c: the result of _init_return_columns
        ColumnsInited(c) ==
            IF c.res # OLAP_SUCCESS THEN c
            ELSE KeysInited(_init_keys_param(tb, c.rd, p))
        \* d: the result of _init_delete_condition
        DeleteInited(d) ==
            IF d.res # OLAP_SUCCESS THEN d
            ELSE ColumnsInited(_init_return_columns(tb, d.rd, p))
        \* c: the Reader after _init_conditions_param
        ConditionsInited(c) ==
            DeleteInited(_init_delete_condition(tb,
                [c EXCEPT !._load_bf_columns =
                     _init_load_bf_columns(tb, c._conditions, ScanTuples(p.start_key),
                                           ScanTuples(p.end_key), oob)], p))
    IN  ConditionsInited(_init_conditions_param(tb,
                        [rd0 EXCEPT !._aggregation = p.aggregation,
                                    !._reader_type = p.reader_type,
                                    !._olap_table = 1,
                                    !._version = p.version], p))

\* ColumnData::delete_pruning_filter: how the loaded delete predicates cover
\* the segment
delete_pruning_filter(tb, rd, s) ==
    LET hit == {i \in 1..Len(tb.segs[s].keys) :
                   is_filter_data(rd.delete_handler, SegVersion(tb, s), SegRow(tb, s, i))}
    IN  IF hit = {} THEN DEL_NOT_SATISFIED
        ELSE IF hit = 1..Len(tb.segs[s].keys) THEN DEL_SATISFIED
        ELSE DEL_PARTIAL_SATISFIED

\* ColumnData::num_rows
num_rows(tb, s) == Len(tb.segs[s].keys)

\* a loop that keeps every segment that has rows
AcquireLoop_no_pruning(tb, st, data_sources, i) ==
    [st EXCEPT !.rd._data_sources = SelectSeq(data_sources, LAMBDA s : num_rows(tb, s) # 0)]

\* a loop that prunes segments without counting their rows
AcquireLoop_uncounted(tb, st, data_sources, i) ==
    LET kept(s) == /\ num_rows(tb, s) # 0
                   /\ ~tb.segs[s].stats_pruned
                   /\ delete_pruning_filter(tb, st.rd, s) # DEL_SATISFIED
    IN  [st EXCEPT !.rd._data_sources = SelectSeq(data_sources, kept),
                   !.rd.delete_status =
                       [s \in DOMAIN @ |->
                           IF InSeq(s, data_sources) /\ kept(s)
                           THEN delete_pruning_filter(tb, st.rd, s) ELSE @[s]]]

\* the loop over data_sources of Reader::_acquire_data_sources
RECURSIVE AcquireLoop(_, _, _, _)
AcquireLoop(tb, st, data_sources, i) ==
    IF i > Len(data_sources) THEN st
    ELSE LET s == data_sources[i]
             ret == delete_pruning_filter(tb, st.rd, s)
         IN  IF num_rows(tb, s) = 0
             THEN AcquireLoop(tb, st, data_sources, i + 1)
             ELSE IF tb.segs[s].stats_pruned
             THEN AcquireLoop(tb,
                      [st EXCEPT !.rd._stats.rows_stats_filtered = @ + num_rows(tb, s)],
                      data_sources, i + 1)
             ELSE IF ret = DEL_SATISFIED
             THEN AcquireLoop(tb,
                      [st EXCEPT !.rd._stats.rows_del_filtered = @ + num_rows(tb, s),
                                 !.h.pruned_deleted = @ + num_rows(tb, s)],
                      data_sources, i + 1)
             ELSE AcquireLoop(tb,
                      [st EXCEPT !.rd.delete_status[s] = ret,
                                 !.rd._data_sources = Append(@, s)],
                      data_sources, i + 1)

\* OLAPTable::acquire_data_sources: the segments of the pinned version
acquire_data_sources(tb) == [i \in 1..Len(tb.segs) |-> i]

\* Reader::_acquire_data_sources
_acquire_data_sources(tb, st, p) ==
    IF p.reader_type \in {"READER_ALTER_TABLE", "READER_BASE_COMPACTION",
                          "READER_CUMULATIVE_COMPACTION"}
    THEN [st |-> AcquireLoop(tb, st, p.olap_data_arr, 1), res |-> OLAP_SUCCESS]
    ELSE LET own == acquire_data_sources(tb)
             st1 == [st EXCEPT !.rd = release_header_lock(
                                          [obtain_header_rdlock(@) EXCEPT
                                               !._own_data_sources = own])]
         IN  IF Len(own) < 1
             THEN [st |-> st1, res |-> OLAP_ERR_VERSION_NOT_EXIST]
             ELSE [st |-> AcquireLoop(tb, st1, own, 1), res |-> OLAP_SUCCESS]

\* Reader::init
Reader_init(tb, st, p, oob) ==
    LET \* m: the result of _attach_data_to_merge_set(true, &eof)
        Attached(m) ==
            IF m.res # OLAP_SUCCESS THEN [st |-> m.st, res |-> m.res]
            ELSE [st |-> [m.st EXCEPT !.rd._next_row_func =
                              CASE tb.keys_type = "DUP_KEYS" -> "_dup_key_next_row"
                                [] tb.keys_type = "UNIQUE_KEYS" -> "_unique_key_next_row"
                                [] tb.keys_type = "AGG_KEYS" -> "_agg_key_next_row"],
                  res |-> OLAP_SUCCESS]
        \* a: the result of _acquire_data_sources
        Acquired(a) ==
            IF a.res # OLAP_SUCCESS THEN [st |-> a.st, res |-> a.res]
            ELSE Attached(_attach_data_to_merge_set(tb, a.st, TRUE))
        \* i: the result of _init_params
        Inited(i) ==
            IF i.res # OLAP_SUCCESS THEN [st |-> [st EXCEPT !.rd = i.rd], res |-> i.res]
            ELSE Acquired(_acquire_data_sources(tb, [st EXCEPT !.rd = i.rd], p))
    IN  Inited(_init_params(tb, st.rd, p, oob))

(***************************************************************************)
(* Reader::close, on the Reader and on the heap.                            *)
(***************************************************************************)
\* OLAPTable::release_data_sources(&sources): drops every segment of the
\* list and clears the list
release_data_sources(m, sources) ==
    [m |-> [m EXCEPT !.released =
                  [s \in DOMAIN @ |->
                      @[s] + Cardinality({i \in 1..Len(sources) : sources[i] = s})]],
     sources |-> <<>>]

\* a close that forgets to hand the segments back
Reader_close_leak(rd, m) ==
    LET m2 == [m EXCEPT !.pred_deleted = [i \in 1..Len(rd._col_predicates) |->
                                             IF i \in DOMAIN @ THEN @[i] + 1 ELSE 1]]
        m3 == [m2 EXCEPT !.ci_deleted = IF rd._collect_iter # NULL THEN @ + 1 ELSE @]
    IN  [rd |-> [rd EXCEPT !._conditions = <<>>, !.delete_handler = {}],
         m |-> m3]

\* Reader::close
Reader_close(rd, m) ==
    LET rel == release_data_sources(m, rd._own_data_sources)
        m1 == rel.m
        m2 == [m1 EXCEPT !.pred_deleted = [i \in 1..Len(rd._col_predicates) |->
                                              IF i \in DOMAIN @ THEN @[i] + 1 ELSE 1]]
        m3 == [m2 EXCEPT !.ci_deleted = IF rd._collect_iter # NULL THEN @ + 1 ELSE @]
    IN  [rd |-> [rd EXCEPT !._own_data_sources = rel.sources,
                           !._conditions = <<>>,
                           !.delete_handler = {}],
         m |-> m3]

\* an object was freed twice: from here on the behaviour of the program is
\* undefined
DoubleFree(m) ==
    \/ m.ci_deleted > 1
    \/ \E i \in DOMAIN m.pred_deleted : m.pred_deleted[i] > 1
    \/ \E s \in DOMAIN m.released : m.released[s] > 1

(***************************************************************************)
(* The state after Reader::Reader().                                        *)
(***************************************************************************)
Reader_new(nsegs) ==
    [_next_key_index |-> 0,
     _aggregation |-> FALSE,
     _reader_type |-> "READER_QUERY",
     _next_delete_flag |-> FALSE,
     _next_key |-> NULL,
     _merged_rows |-> 0,
     _olap_table |-> NULL,
     _version |-> 0,
     _stats |-> [rows_del_filtered |-> 0, rows_stats_filtered |-> 0],
     _conditions |-> <<>>,
     _col_predicates |-> <<>>,
     delete_handler |-> {},
     delete_status |-> [s \in 1..nsegs |-> DEL_NOT_SATISFIED],
     _return_columns |-> <<>>,
     _key_cids |-> <<>>,
     _value_cids |-> <<>>,
     _seek_columns |-> <<>>,
     _load_bf_columns |-> {},
     header_lock |-> [held |-> 0, obtained |-> 0],
     _keys_param |-> [range |-> "", end_range |-> "", start_keys |-> <<>>, end_keys |-> <<>>],
     _own_data_sources |-> <<>>,
     _data_sources |-> <<>>,
     _collect_iter |-> NULL,
     ci |-> [_merge |-> TRUE, _heap |-> EmptyBag, _children |-> <<>>,
             _cur_child |-> NULL, _child_idx |-> 0],
     _next_row_func |-> ""]

Hist_new ==
    [range |-> 0, attached |-> <<>>, delivered |-> <<>>, seeks |-> <<>>,
     add_child |-> <<>>, heap_ok |-> TRUE, dcheck_ok |-> TRUE, end_key_reads |-> {},
     groups |-> <<>>, cursor_filtered |-> 0, pruned_deleted |-> 0,
     seek_under_lock |-> FALSE,
     data_eof |-> FALSE, eof_seen |-> FALSE, attached_at_eof |-> 0, groups_at_eof |-> 0,
     delivered_at_eof |-> 0,
     closes |-> 0, last |-> [op |-> "new", res |-> OLAP_SUCCESS, eof |-> FALSE]]

Mem_new(nsegs) ==
    [acquired |-> [s \in 1..nsegs |-> 0],
     released |-> [s \in 1..nsegs |-> 0],
     pred_deleted |-> <<>>,
     ci_deleted |-> 0]

(***************************************************************************)
(* Initial states: a tablet, the ReaderParams and a freshly constructed     *)
(* Reader.  Segment i has version i (acquire_data_sources hands the         *)
(* segments out in version order); its rows are sorted by key.              *)
(***************************************************************************)
\* the lists of non-empty sorted key sequences that hold at most t rows in all
RECURSIVE SegKeyLists(_)
SegKeyLists(t) ==
    {<<>>} \cup UNION {{<<ks>> \o rest : rest \in SegKeyLists(t - Len(ks))} :
                          ks \in SortedKeySeqs(t) \ {<<>>}}

Segs(kl, flag, pruned) ==
    [i \in 1..Len(kl) |-> [version |-> i, delete_flag |-> flag[i], keys |-> kl[i],
                           stats_pruned |-> pruned[i]]]

\* the schema of the scanned tablets: key column 0 and value column 1, no
\* bloom filter
PlainSchema ==
    <<[type |-> "OLAP_FIELD_TYPE_INT", is_bf_column |-> FALSE],
      [type |-> "OLAP_FIELD_TYPE_INT", is_bf_column |-> FALSE]>>

Tablet(kt, segs, dc, fault, io) ==
    [keys_type |-> kt, segs |-> segs, del_conds |-> dc, fault |-> fault, io_fault |-> io,
     schema |-> PlainSchema, num_short_key_fields |-> 1]

\* every tablet of at most t rows; only a UNIQUE_KEYS tablet has
\* delete-flagged segments
Tablets(kt, t) ==
    UNION {{Tablet(kt, Segs(kl, flag, [i \in 1..Len(kl) |-> FALSE]), {}, "none", {}) :
               flag \in [1..Len(kl) -> IF kt = "UNIQUE_KEYS" THEN BOOLEAN ELSE {FALSE}]} :
              kl \in SegKeyLists(t)}

\* two segments that each hold every key once
DenseSegs(pruned) ==
    Segs(<<[k \in 1..MaxKey |-> k], [k \in 1..MaxKey |-> k]>>, <<FALSE, FALSE>>, pruned)

DenseTablet(kt) == Tablet(kt, DenseSegs(<<FALSE, FALSE>>), {}, "none", {})

Params(tb, rt, agg, ret, conds, sk, ek, rg, erg) ==
    [reader_type |-> rt, aggregation |-> agg, version |-> Len(tb.segs),
     return_columns |-> ret, conditions |-> conds,
     start_key |-> sk, end_key |-> ek, range |-> rg, end_range |-> erg,
     olap_data_arr |-> [i \in 1..Len(tb.segs) |-> i]]

\* the non-empty lists of at most n scan keys
KeyLists(n) == UNION {[1..m -> Keys] : m \in 1..n}

\* the end keys that go with a list of start keys: as many, or none
EndKeyLists(sk) == [1..Len(sk) -> Keys] \cup {<<>>}

\* all columns, for the reader types that may name their return columns
AllColumns(rt) == IF rt \in {"READER_QUERY", "READER_CHECKSUM"} THEN SchemaCols ELSE <<>>

Start(tb, p) ==
    /\ tablet = tb
    /\ params = p
    /\ reader = Reader_new(Len(tb.segs))
    /\ pc = "constructed"
    /\ mem = Mem_new(Len(tb.segs))
    /\ hist = Hist_new

\* full scans of every tablet, all columns returned, by a reader of each way
\* to get at the segments
InitScan ==
    \E kt \in KeysTypes, agg \in BOOLEAN :
    \E rt \in {"READER_QUERY", "READER_CHECKSUM", "READER_BASE_COMPACTION"} :
    \E tb \in Tablets(kt, MaxTotalRows) :
        Start(tb, Params(tb, rt, agg, AllColumns(rt), <<>>, <<>>, <<>>, "", ""))

\* full scans of the smaller tablets under every choice of return columns
InitColumns ==
    \E kt \in KeysTypes, rt \in ReaderTypes, agg \in BOOLEAN :
    \E tb \in Tablets(kt, MaxTotalRows - 1) :
    \E ret \in {<<>>, <<0>>, <<1>>} :
        Start(tb, Params(tb, rt, agg, ret, <<>>, <<>>, <<>>, "", ""))

\* scans of at most n ranges over the dense tablet
InitRangesOf(n) ==
    \E kt \in KeysTypes, rt \in ReaderTypes, agg \in BOOLEAN :
    \E sk \in KeyLists(n) :
    \E ek \in EndKeyLists(sk) :
    \E rg \in {"gt", "ge", "eq"}, erg \in {"lt", "le"} :
        LET tb == DenseTablet(kt)
        IN  Start(tb, Params(tb, rt, agg, AllColumns(rt), <<>>, sk, ek, rg, erg))

InitRanges == InitRangesOf(MaxRanges)

\* the conditions a caller pushes down
Conditions ==
    {<<>>, <<[column |-> 0, op |-> "*=", operands |-> 1]>>,
     <<[column |-> 0, op |-> ">=", operands |-> 1],
       [column |-> 1, op |-> "<<", operands |-> 1]>>}

\* the delete predicates of a tablet: none, one that deletes one key, or
\* those of one version that between them delete every key
DeleteConds ==
    {{}} \cup {{[version |-> v, key |-> k]} : v \in 1..2, k \in Keys}
         \cup {{[version |-> v, key |-> k] : k \in Keys} : v \in 1..2}

\* scans of the dense tablet with delete predicates and segments that the
\* pushed conditions rule out
InitDelete ==
    \E kt \in KeysTypes, rt \in ReaderTypes, agg \in BOOLEAN :
    \E dc \in DeleteConds :
    \E pruned \in [1..2 -> BOOLEAN] :
    \E ret \in {AllColumns(rt), <<>>, <<1>>} :
        LET tb == Tablet(kt, DenseSegs(pruned), dc, "none", {})
        IN  Start(tb, Params(tb, rt, agg, ret,
                             <<[column |-> 0, op |-> "*=", operands |-> 1]>>,
                             <<>>, <<>>, "", ""))

\* scans in which a step of init or a segment read fails, or a token is unknown
InitFaults ==
    \E kt \in KeysTypes, rt \in ReaderTypes, agg \in BOOLEAN :
    \E conds \in Conditions :
    \E sk \in {<<>>, <<1>>, <<MaxKey, 1>>} :
    \E rg \in {"ge", "xx"}, erg \in {"le", "xx"} :
    \E fault \in {"none", "delete_handler", "keys_param"} :
    \E io \in {{}} \cup {{[seg |-> 1, range |-> r]} : r \in 0..2} :
    \E ret \in {AllColumns(rt), <<>>} :
        LET tb == Tablet(kt, DenseSegs(<<FALSE, FALSE>>), {}, fault, io)
        IN  Start(tb, Params(tb, rt, agg, ret, conds, sk, sk, rg, erg))

Init == InitScan \/ InitColumns \/ InitRanges \/ InitDelete \/ InitFaults

(***************************************************************************)
(* Actions: the calls a user of the Reader makes.                           *)
(***************************************************************************)
State == [rd |-> reader, h |-> [hist EXCEPT !.data_eof = FALSE]]

\* Reader::init(read_params)
ReaderInit ==
    /\ pc = "constructed"
    /\ \E oob \in OobOutcomes(ScanTuples(params.start_key), ScanTuples(params.end_key),
                              Len(tablet.schema)) :
           IF oob = OOB_CRASH
           THEN /\ pc' = "crashed"
                /\ hist' = [hist EXCEPT !.last = [op |-> "init", res |-> "SIGSEGV",
                                                  eof |-> FALSE],
                                        !.end_key_reads =
                                            EndKeyReads_load_bf(ScanTuples(params.start_key),
                                                                ScanTuples(params.end_key),
                                                                Len(tablet.schema))]
                /\ UNCHANGED <<reader, mem>>
           ELSE \E r \in {Reader_init(tablet, State, params, oob)} :
                /\ reader' = r.st.rd
                /\ hist' = [r.st.h EXCEPT !.last = [op |-> "init", res |-> r.res,
                                                    eof |-> FALSE],
                                          !.end_key_reads =
                                              @ \cup {[step |-> "_init_keys_param", index |-> i] :
                                                       i \in 1..Len(r.st.rd._keys_param.end_keys)}
                                                \cup EndKeyReads_load_bf(
                                                         ScanTuples(params.start_key),
                                                         ScanTuples(params.end_key),
                                                         Len(tablet.schema))]
                /\ pc' = IF r.res = OLAP_SUCCESS THEN "inited" ELSE "init_failed"
                /\ mem' = [mem EXCEPT
                             !.acquired = [s \in DOMAIN @ |->
                                              IF InSeq(s, r.st.rd._own_data_sources)
                                              THEN 1 ELSE 0],
                             !.pred_deleted =
                                 [i \in 1..Len(r.st.rd._col_predicates) |-> 0]]
    /\ UNCHANGED <<tablet, params>>

\* what a next_row call leaves behind: the Reader, the caller's position
\* and the history
Returned(r) ==
    <<r.st.rd,
      IF r.res = OLAP_SUCCESS THEN "inited" ELSE "failed",
      [r.st.h EXCEPT
         !.eof_seen = @ \/ r.eof,
         !.attached_at_eof = IF r.eof /\ ~hist.eof_seen
                             THEN r.st.rd._next_key_index ELSE @,
         !.groups_at_eof = IF r.eof /\ ~hist.eof_seen
                           THEN Len(r.st.h.groups) ELSE @,
         !.delivered_at_eof = IF r.eof /\ ~hist.eof_seen
                              THEN Len(r.st.h.delivered) ELSE @,
         !.last = [op |-> "next_row", res |-> r.res, eof |-> r.eof]]>>

AfterNextRow(r) ==
    /\ \E a \in {Returned(r)} :
           /\ reader' = a[1]
           /\ pc' = a[2]
           /\ hist' = a[3]
    /\ UNCHANGED <<tablet, params, mem>>

\* Reader::next_row on a DUP_KEYS tablet
DupKeyNextRow ==
    /\ pc = "inited"
    /\ reader._next_row_func = "_dup_key_next_row"
    /\ \E r \in {_dup_key_next_row(tablet, State)} : AfterNextRow(r)

\* Reader::next_row on an AGG_KEYS tablet
AggKeyNextRow ==
    /\ pc = "inited"
    /\ reader._next_row_func = "_agg_key_next_row"
    /\ \E r \in {_agg_key_next_row(tablet, State)} : AfterNextRow(r)

\* Reader::next_row on a UNIQUE_KEYS tablet
UniqueKeyNextRow ==
    /\ pc = "inited"
    /\ reader._next_row_func = "_unique_key_next_row"
    /\ \E r \in {_unique_key_next_row(tablet, State)} : AfterNextRow(r)

\* an explicit Reader::close()
Close ==
    /\ pc \in {"inited", "init_failed", "failed"}
    /\ LET c == Reader_close(reader, mem)
       IN  /\ reader' = c.rd
           /\ mem' = c.m
           /\ hist' = [hist EXCEPT !.closes = @ + 1,
                                   !.last = [op |-> "close", res |-> OLAP_SUCCESS, eof |-> FALSE]]
    /\ pc' = "closed"
    /\ UNCHANGED <<tablet, params>>

\* Reader::~Reader(), which calls close().  Deleting an object a second
\* time is undefined: the destructor either gets away with it or the process
\* aborts, and then nothing of the Reader is left.
Destroy ==
    /\ pc \in {"inited", "init_failed", "failed", "closed"}
    /\ LET c == Reader_close(reader, mem)
       IN  /\ mem' = c.m
           /\ \/ /\ reader' = c.rd
                 /\ hist' = [hist EXCEPT !.closes = @ + 1,
                                         !.last = [op |-> "~Reader", res |-> OLAP_SUCCESS,
                                                   eof |-> FALSE]]
                 /\ pc' = "destroyed"
              \/ /\ DoubleFree(c.m)
                 /\ reader' = Reader_new(Len(tablet.segs))
                 /\ hist' = [Hist_new EXCEPT !.last = [op |-> "~Reader", res |-> "SIGABRT",
                                                       eof |-> FALSE]]
                 /\ pc' = "crashed"
    /\ UNCHANGED <<tablet, params>>

Next ==
    \/ ReaderInit
    \/ DupKeyNextRow
    \/ AggKeyNextRow
    \/ UniqueKeyNextRow
    \/ Close
    \/ Destroy

Spec == Init /\ [][Next]_vars

\* the scans of several ranges
InitManyRanges == InitRangesOf(ManyRanges)

SpecRanges == InitManyRanges /\ [][Next]_vars

\* scans of one range over the dense tablet with delete predicates, where a
\* range may hold nothing but deleted rows
InitDeleteRanges ==
    \E kt \in KeysTypes, rt \in {"READER_QUERY", "READER_BASE_COMPACTION"}, agg \in BOOLEAN :
    \E dc \in DeleteConds :
    \E sk \in KeyLists(1) :
    \E ek \in EndKeyLists(sk) :
    \E rg \in {"ge", "eq"} :
        LET tb == Tablet(kt, DenseSegs(<<FALSE, FALSE>>), dc, "none", {})
        IN  Start(tb, Params(tb, rt, agg, AllColumns(rt), <<>>, sk, ek, rg, "le"))

SpecDeleteRanges == InitDeleteRanges /\ [][Next]_vars

\* scans of one range over the dense tablet under every pair of range
\* tokens, known or not, with and without end keys
InitTokens ==
    \E kt \in KeysTypes, rt \in {"READER_QUERY", "READER_CHECKSUM"}, agg \in BOOLEAN :
    \E sk \in KeyLists(1) :
    \E ek \in EndKeyLists(sk) :
    \E rg \in {"gt", "ge", "eq", "xx"}, erg \in {"lt", "le", "xx"} :
        LET tb == DenseTablet(kt)
        IN  Start(tb, Params(tb, rt, agg, AllColumns(rt), <<>>, sk, ek, rg, erg))

SpecTokens == InitTokens /\ [][Next]_vars

\* scans of the small tablets, with their delete-flagged segments and the
\* keys they lack, in full or over at most two ranges that end at the
\* largest key and of which some hold no row; nothing fails
InitLive ==
    \E kt \in KeysTypes, agg \in BOOLEAN :
    \E tb \in Tablets(kt, MaxTotalRows - 1) :
    \E sk \in KeyLists(2) \cup {<<>>} :
    \E ek \in {[i \in 1..Len(sk) |-> MaxKey]} :
    \E rg \in {"gt", "ge"} :
        Start(tb, Params(tb, "READER_QUERY", agg, AllColumns("READER_QUERY"), <<>>,
                         sk, ek, IF sk = <<>> THEN "" ELSE rg,
                         IF sk = <<>> THEN "" ELSE "le"))

\* ENABLED <<NextRow>>_vars for NextRow the call of Reader::next_row
\* (DupKeyNextRow \/ AggKeyNextRow \/ UniqueKeyNextRow), computed from the
\* call's result: the call changes some variable
NextRowEnabled ==
    LET Moves(r) == Returned(r) # <<reader, pc, hist>>
    IN  /\ pc = "inited"
        /\ \/ /\ reader._next_row_func = "_dup_key_next_row"
              /\ \E r \in {_dup_key_next_row(tablet, State)} : Moves(r)
           \/ /\ reader._next_row_func = "_agg_key_next_row"
              /\ \E r \in {_agg_key_next_row(tablet, State)} : Moves(r)
           \/ /\ reader._next_row_func = "_unique_key_next_row"
              /\ \E r \in {_unique_key_next_row(tablet, State)} : Moves(r)

\* the caller goes on calling next_row as long as it has not closed the
\* Reader: WF_vars(NextRow), with ENABLED <<NextRow>>_vars written out
SpecLive ==
    /\ InitLive
    /\ [][Next]_vars
    /\ \/ []<>(~NextRowEnabled)
       \/ []<><<DupKeyNextRow \/ AggKeyNextRow \/ UniqueKeyNextRow>>_vars

(***************************************************************************)
(* The choice of the bloom filter columns on its own, over schemas with     *)
(* two key columns and scan keys of one or two fields.                      *)
(***************************************************************************)
\* the schemas: key columns 0 and 1 of either type, with or without a bloom
\* filter, and a value column 2 with one
BfSchemas ==
    {<<[type |-> t0, is_bf_column |-> b0], [type |-> t1, is_bf_column |-> b1],
       [type |-> "OLAP_FIELD_TYPE_INT", is_bf_column |-> TRUE]>> :
        t0 \in {"OLAP_FIELD_TYPE_VARCHAR", "OLAP_FIELD_TYPE_INT"},
        t1 \in {"OLAP_FIELD_TYPE_VARCHAR", "OLAP_FIELD_TYPE_INT"},
        b0 \in BOOLEAN, b1 \in BOOLEAN}

\* what a caller may push on one column: nothing, an equality, an IN list
\* just below or at MAX_OP_IN_FIELD_NUM, or a comparison
BfCondsOn(c) ==
    {<<>>, <<[column |-> c, op |-> "*=", operands |-> 1]>>,
     <<[column |-> c, op |-> "*=", operands |-> MAX_OP_IN_FIELD_NUM - 1]>>,
     <<[column |-> c, op |-> "*=", operands |-> MAX_OP_IN_FIELD_NUM]>>,
     <<[column |-> c, op |-> "<<", operands |-> 1]>>}

\* a start tuple of len fields, and the end tuples that go with it
BfStartTuple(len) == [j \in 1..len |-> 1]
BfKeyPairs ==
    UNION {{[start |-> BfStartTuple(len), end |-> e] : e \in [1..len -> 1..2]} :
              len \in 1..2}

\* the lists of at most two scan-key pairs
BfKeyLists == {<<>>} \cup {<<a>> : a \in BfKeyPairs}
                     \cup {<<a, b>> : a \in BfKeyPairs, b \in BfKeyPairs}

InitBf ==
    \E schema \in BfSchemas, nskf \in 1..2 :
    \E c0 \in BfCondsOn(0), c1 \in BfCondsOn(1) :
    \E kl \in BfKeyLists, open_end \in BOOLEAN :
        /\ tablet = [schema |-> schema, num_short_key_fields |-> nskf]
        /\ params = [conditions |-> c0 \o c1 \o <<[column |-> 2, op |-> "*=",
                                                    operands |-> 1]>>,
                     start_key |-> [i \in 1..Len(kl) |-> kl[i].start],
                     end_key |-> IF open_end THEN <<>>
                                 ELSE [i \in 1..Len(kl) |-> kl[i].end]]
        /\ reader = [_load_bf_columns |-> {}]
        /\ pc = "bf_constructed"
        /\ mem = <<>>
        /\ hist = <<>>

\* Reader::_init_load_bf_columns(read_params), after _init_conditions_param
\* has appended every condition of read_params
InitLoadBfColumns ==
    /\ pc = "bf_constructed"
    /\ \E oob \in OobOutcomes(params.start_key, params.end_key, Len(tablet.schema)) :
           IF oob = OOB_CRASH
           THEN /\ pc' = "crashed"
                /\ UNCHANGED reader
           ELSE /\ pc' = "bf_inited"
                /\ reader' = [reader EXCEPT !._load_bf_columns =
                                  _init_load_bf_columns(tablet, params.conditions,
                                                        params.start_key, params.end_key,
                                                        oob)]
    /\ UNCHANGED <<tablet, params, mem, hist>>

NextBf == InitLoadBfColumns

SpecBf == InitBf /\ [][NextBf]_vars

(***************************************************************************)
(* What a caller observes.                                                  *)
(***************************************************************************)
Range(f) == {f[i] : i \in DOMAIN f}

RECURSIVE SetSum(_)
SetSum(S) == IF S = {} THEN 0 ELSE LET x == CHOOSE y \in S : TRUE IN x + SetSum(S \ {x})

\* the output rows next_row returned, and the key groups it dropped as deleted
Emitted == SelectSeq(hist.groups, LAMBDA g : g.returned)
Dropped == SelectSeq(hist.groups, LAMBDA g : ~g.returned)

\* the key column, a value column is among the columns the Reader returns
KeyReturned == InSeq(0, reader._key_cids)
ValueReturned == reader._value_cids # <<>>

\* the CollectIterator merges
MergeMode == reader.ci._merge

\* a physical row comes from a delete-flagged segment
FlaggedSeg(r) == tablet.segs[r.seg].delete_flag

\* the absorbed row whose value the output row of a UNIQUE_KEYS group holds
Carrier(g) == CHOOSE r \in Range(g.rows) : r.val = g.cursor.val

\* an absorbed row of the highest version in the group
HighestVersion(g) ==
    CHOOSE r \in Range(g.rows) :
        \A q \in Range(g.rows) : SegVersion(tablet, q.seg) <= SegVersion(tablet, r.seg)

\* the delete predicates that apply to the version read
LoadedDeleteConds ==
    IF params.reader_type = "READER_CUMULATIVE_COMPACTION" THEN {}
    ELSE {c \in tablet.del_conds : c.version <= params.version}

\* the source rows a scan can see: rows of the kept segments that no delete
\* predicate removes
KeptSegs == Range(reader._data_sources)
Visible(r) == ~is_filter_data(LoadedDeleteConds, SegVersion(tablet, r.seg), r)
SourceRows == UNION {{r \in Range(SegRows(tablet, s)) : Visible(r)} : s \in KeptSegs}

\* the bounds of the i-th scan range as the caller gave them; range 0 is the
\* full scan
InScanRange(k, i) ==
    IF i = 0 THEN TRUE
    ELSE LET start == params.start_key[i]
             open == Len(params.end_key) = 0
         IN  IF params.range = "eq" THEN k = start
             ELSE /\ IF params.range = "gt" THEN k > start ELSE k >= start
                  /\ \/ open
                     \/ IF params.end_range = "le" THEN k <= params.end_key[i]
                        ELSE k < params.end_key[i]

\* the source rows of key k inside scan range i
SourceRowsOf(k, i) == {r \in SourceRows : r.key = k /\ InScanRange(r.key, i)}

\* the rows the CollectIterator handed out for scan range i among the first n
DeliveredIn(i, n) ==
    SelectSeq(SubSeq(hist.delivered, 1, n), LAMBDA d : d.range = i)

(***************************************************************************)
(* C1.                                                                      *)
(***************************************************************************)
\* C1 as stated: in every scan of a UNIQUE_KEYS tablet the emitted keys are
\* strictly increasing and no emitted row carries a delete flag (holds the
\* value of a delete-flagged segment).
C1_UniqueStrictlyIncreasing ==
    tablet.keys_type = "UNIQUE_KEYS" =>
        LET e == Emitted
        IN  /\ \A i, j \in 1..Len(e) : i < j => e[i].key < e[j].key
            /\ ValueReturned => \A i \in 1..Len(e) : ~FlaggedSeg(Carrier(e[i]))

\* C1 amended: in a merging scan of a UNIQUE_KEYS tablet that returns the key
\* column, the keys emitted within one scan range never descend, and two
\* successive rows have the same key only when aggregation is set and the
\* first was cut at the row cap; in every scan that returns a value column no
\* emitted row holds the value of a delete-flagged segment.
C1_UniqueOrderWithinRange ==
    tablet.keys_type = "UNIQUE_KEYS" =>
        LET e == Emitted
        IN  /\ (MergeMode /\ KeyReturned) =>
                \A i, j \in 1..Len(e) :
                    (i < j /\ e[i].range = e[j].range) =>
                        \/ e[i].key < e[j].key
                        \/ /\ e[i].key = e[j].key
                           /\ reader._aggregation
                           /\ e[i].merged_count > doris_scanner_row_num
            /\ ValueReturned => \A i \in 1..Len(e) : ~FlaggedSeg(Carrier(e[i]))

\* C1 witness: two keys emitted in one range, one of them built over a row
\* of a delete-flagged segment that a newer row replaced
C1_Witness ==
    /\ tablet.keys_type = "UNIQUE_KEYS"
    /\ MergeMode /\ KeyReturned /\ ValueReturned
    /\ Len(Emitted) >= 2
    /\ \E i \in 1..Len(Emitted) : \E r \in Range(Emitted[i].rows) : FlaggedSeg(r)

(***************************************************************************)
(* C2.                                                                      *)
(***************************************************************************)
\* C2 as stated: a UNIQUE_KEYS output row is dropped exactly when the
\* highest-version row absorbed into it comes from a delete-flagged segment,
\* and each dropped row adds exactly 1 to rows_del_filtered.
C2_FateByHighestVersion ==
    tablet.keys_type = "UNIQUE_KEYS" =>
        /\ \A i \in 1..Len(hist.groups) :
               hist.groups[i].returned = ~FlaggedSeg(HighestVersion(hist.groups[i]))
        /\ pc # "crashed" =>
               reader._stats.rows_del_filtered =
                   hist.pruned_deleted + hist.cursor_filtered + Len(Dropped)

\* C2 amended: the same, for scans that return the key column.
C2_FateByHighestVersionOfKey ==
    (tablet.keys_type = "UNIQUE_KEYS" /\ KeyReturned) =>
        /\ \A i \in 1..Len(hist.groups) :
               hist.groups[i].returned = ~FlaggedSeg(HighestVersion(hist.groups[i]))
        /\ pc # "crashed" =>
               reader._stats.rows_del_filtered =
                   hist.pruned_deleted + hist.cursor_filtered + Len(Dropped)

\* C2 witness: a key whose newest row is a tombstone over an older live row
\* was dropped, another key was returned
C2_Witness ==
    /\ tablet.keys_type = "UNIQUE_KEYS" /\ KeyReturned
    /\ Len(Emitted) >= 1
    /\ \E i \in 1..Len(Dropped) :
           /\ Len(Dropped[i].rows) >= 2
           /\ ~FlaggedSeg(Dropped[i].rows[1])
    /\ reader._stats.rows_del_filtered = 1

(***************************************************************************)
(* C3.                                                                      *)
(***************************************************************************)
\* C3 as stated: in every scan of an AGG_KEYS tablet the emitted keys never
\* descend and no two successive emitted rows have the same key.
C3_AggNonDescendingDistinct ==
    tablet.keys_type = "AGG_KEYS" =>
        LET e == Emitted
        IN  \A i \in 1..(Len(e) - 1) : e[i].key <= e[i + 1].key /\ e[i].key # e[i + 1].key

\* C3 amended: in a merging scan of an AGG_KEYS tablet that returns the key
\* column, the keys emitted within one scan range never descend, and two
\* successive rows have the same key only when aggregation is set and the
\* first was cut at the row cap.
C3_AggOrderWithinRange ==
    (tablet.keys_type = "AGG_KEYS" /\ MergeMode /\ KeyReturned) =>
        LET e == Emitted
        IN  \A i \in 1..(Len(e) - 1) :
                e[i].range = e[i + 1].range =>
                    \/ e[i].key < e[i + 1].key
                    \/ /\ e[i].key = e[i + 1].key
                       /\ reader._aggregation
                       /\ e[i].merged_count > doris_scanner_row_num

\* C3 witness: two keys emitted in one range, the first folded from two rows
C3_Witness ==
    /\ tablet.keys_type = "AGG_KEYS" /\ MergeMode /\ KeyReturned
    /\ Len(Emitted) >= 2
    /\ Emitted[1].range = Emitted[2].range
    /\ Emitted[1].merged_count >= 1

(***************************************************************************)
(* C4.                                                                      *)
(***************************************************************************)
\* C4 as stated: every row emitted from an AGG_KEYS tablet holds the
\* aggregate of all source rows of its key in the scan range, and
\* _merged_rows counts the rows folded into others.
C4_AggregateOfAllRows ==
    tablet.keys_type = "AGG_KEYS" =>
        LET e == Emitted
        IN  \A i \in 1..Len(e) :
                LET src == SourceRowsOf(e[i].key, e[i].range)
                IN  /\ e[i].cursor.val = SetSum({r.val : r \in src})
                    /\ e[i].merged_count = Cardinality(src) - 1

\* C4 amended: the same for a merging scan that returns the key column and
\* the value column, when aggregation is not set or the key has at most
\* doris_scanner_row_num + 2 source rows in the range.
C4_AggregateOfAllRowsMerged ==
    (tablet.keys_type = "AGG_KEYS" /\ MergeMode /\ KeyReturned /\ ValueReturned) =>
        LET e == Emitted
        IN  /\ \A i \in 1..Len(e) :
                   LET src == SourceRowsOf(e[i].key, e[i].range)
                   IN  (~reader._aggregation
                        \/ Cardinality(src) <= doris_scanner_row_num + 2) =>
                           /\ e[i].cursor.val = SetSum({r.val : r \in src})
                           /\ e[i].merged_count = Cardinality(src) - 1
            /\ pc # "crashed" =>
                   reader._merged_rows =
                       SeqSum([i \in 1..Len(hist.groups) |-> hist.groups[i].merged_count])

\* C4 witness: one key with two rows in one segment and one in another,
\* emitted as one row, _merged_rows = 2
C4_Witness ==
    /\ tablet.keys_type = "AGG_KEYS" /\ MergeMode /\ KeyReturned /\ ValueReturned
    /\ Len(tablet.segs) = 2
    /\ Len(Emitted) = 1
    /\ Len(Emitted[1].rows) = 3
    /\ reader._merged_rows = 2
    /\ hist.eof_seen

(***************************************************************************)
(* C5.                                                                      *)
(***************************************************************************)
\* C5: when a scan of a DUP_KEYS tablet has reported eof, the rows emitted
\* up to then are, as a multiset, the visible source rows that lie inside
\* some scan range: none is lost, none is emitted more often than it occurs.
C5_DupKeysMultiset ==
    (tablet.keys_type = "DUP_KEYS" /\ hist.eof_seen) =>
        LET ranges == IF Len(params.start_key) = 0 THEN {0} ELSE 1..Len(params.start_key)
            inside == {r \in SourceRows : \E i \in ranges : InScanRange(r.key, i)}
            e == SubSeq(hist.groups, 1, hist.groups_at_eof)
        IN  SeqToBag([i \in 1..Len(e) |-> e[i].rows[1]]) = SetToBag(inside)

(***************************************************************************)
(* C6.                                                                      *)
(***************************************************************************)
\* C6: in merge mode the rows the CollectIterator hands out within one scan
\* range never descend in key order.
C6_MergeNonDescending ==
    MergeMode =>
        \A i, j \in 1..Len(hist.delivered) :
            (i < j /\ hist.delivered[i].range = hist.delivered[j].range) =>
                full_key_cmp(hist.delivered[i].row.key, hist.delivered[j].row.key) <= 0

\* C6 witness: three rows handed out in one range by a merge that had to
\* switch from the second segment back to the first
C6_Witness ==
    /\ MergeMode
    /\ Len(hist.delivered) >= 3
    /\ hist.delivered[1].row.seg = 2
    /\ hist.delivered[2].row.seg = 1
    /\ hist.delivered[1].row.key < hist.delivered[2].row.key
    /\ hist.delivered[2].range = hist.delivered[3].range

(***************************************************************************)
(* C7.                                                                      *)
(***************************************************************************)
\* C7 as stated: in merge mode, of two rows with equal keys in one scan
\* range the row of the higher segment version is handed out first.
C7_NewerVersionFirst ==
    MergeMode =>
        \A i, j \in 1..Len(hist.delivered) :
            (/\ i < j
             /\ hist.delivered[i].range = hist.delivered[j].range
             /\ hist.delivered[i].row.key = hist.delivered[j].row.key) =>
                SegVersion(tablet, hist.delivered[i].row.seg)
                    >= SegVersion(tablet, hist.delivered[j].row.seg)

\* C7 amended: in merge mode, of two rows with equal keys in one scan range
\* the row of the lower (older) segment version is handed out first.
C7_OlderVersionFirst ==
    MergeMode =>
        \A i, j \in 1..Len(hist.delivered) :
            (/\ i < j
             /\ hist.delivered[i].range = hist.delivered[j].range
             /\ hist.delivered[i].row.key = hist.delivered[j].row.key) =>
                SegVersion(tablet, hist.delivered[i].row.seg)
                    <= SegVersion(tablet, hist.delivered[j].row.seg)

\* C7 witness: two rows of one key from segments of different versions were
\* handed out in one range
C7_Witness ==
    /\ MergeMode
    /\ \E i, j \in 1..Len(hist.delivered) :
           /\ i < j
           /\ hist.delivered[i].range = hist.delivered[j].range
           /\ hist.delivered[i].row.key = hist.delivered[j].row.key
           /\ hist.delivered[i].row.seg # hist.delivered[j].row.seg

(***************************************************************************)
(* C8.                                                                      *)
(***************************************************************************)
\* C8: however often close runs, no column predicate and no CollectIterator
\* is deleted twice, no segment is released twice, and the second close
\* leaves the Reader as the first left it.
C8_CloseIdempotent ==
    /\ mem.ci_deleted <= 1
    /\ \A i \in DOMAIN mem.pred_deleted : mem.pred_deleted[i] <= 1
    /\ \A s \in DOMAIN mem.released : mem.released[s] <= 1
    /\ pc # "crashed"

C10_EveryRangeInOrder ==
    (Len(params.start_key) > 0 /\ hist.eof_seen) =>
        LET n == Len(params.start_key)
        IN  /\ hist.attached_at_eof = n
            /\ SubSeq(hist.attached, 1, hist.attached_at_eof)
                   = [i \in 1..hist.attached_at_eof |-> i]
            /\ \A i, j \in 1..hist.delivered_at_eof :
                   i < j => hist.delivered[i].range <= hist.delivered[j].range
            /\ \A i \in 1..n :
                   LET d == DeliveredIn(i, hist.delivered_at_eof)
                   IN  SeqToBag([k \in 1..Len(d) |-> d[k].row])
                           = SetToBag({r \in SourceRows : InScanRange(r.key, i)})

(***************************************************************************)
(* C11.                                                                     *)
(***************************************************************************)
\* the i-th scan range cannot hold a key: gt with start >= end, ge with
\* start > end
InvertedRange(i) ==
    /\ Len(params.end_key) # 0
    /\ \/ params.range = "gt" /\ params.start_key[i] >= params.end_key[i]
       \/ params.range = "ge" /\ params.start_key[i] > params.end_key[i]

\* C11: when the Reader attaches a scan range with range = gt and
\* start_key >= end_key, or range = ge and start_key > end_key (end_range
\* being lt or le), no segment is seeked for that range and no row is handed
\* out for it, and the call that attached it ends with status OK, a next_row
\* call with eof = true.
C11_EarlyEofWithoutSeek ==
    params.end_range \in {"lt", "le"} =>
        /\ \A i \in Range(hist.attached) :
               (i # 0 /\ InvertedRange(i)) =>
                   /\ \A j \in 1..Len(hist.seeks) : hist.seeks[j].range # i
                   /\ \A j \in 1..Len(hist.delivered) : hist.delivered[j].range # i
        /\ (/\ hist.attached # <<>>
            /\ hist.attached[Len(hist.attached)] # 0
            /\ InvertedRange(hist.attached[Len(hist.attached)])
            /\ hist.last.op \in {"init", "next_row"}) =>
               /\ hist.last.res = OLAP_SUCCESS
               /\ hist.last.op = "next_row" => hist.last.eof

\* C11 witness: init attached an inverted range without a seek, and the
\* next_row call that followed reported eof with no row returned
C11_Witness ==
    /\ params.end_range \in {"lt", "le"}
    /\ hist.attached = <<1>>
    /\ InvertedRange(1)
    /\ hist.seeks = <<>>
    /\ Len(reader._data_sources) = 2
    /\ hist.groups = <<>>
    /\ hist.last = [op |-> "next_row", res |-> OLAP_SUCCESS, eof |-> TRUE]

(***************************************************************************)
(* C12.                                                                     *)
(***************************************************************************)
\* Reader::init has returned OLAP_SUCCESS
InitSucceeded == reader._next_row_func # ""

\* the rows the CollectIterator has handed out so far
DeliveredRows == [i \in 1..Len(hist.delivered) |-> hist.delivered[i].row]

\* C12: after a successful init with empty start_keys there is exactly one
\* range, the full scan: every kept segment was seeked exactly once, in init,
\* with no start key and no end key, and never again; no row is handed out
\* twice, and when next_row has reported eof the rows handed out are exactly
\* the rows of the kept segments that no delete predicate removes.
C12_FullScanOnce ==
    (Len(params.start_key) = 0 /\ InitSucceeded) =>
        /\ hist.attached = <<0>>
        /\ hist.seeks = [i \in 1..Len(reader._data_sources) |->
                            [seg |-> reader._data_sources[i], range |-> 0,
                             start_key |-> NULL, find_last_row |-> FALSE,
                             end_key |-> NULL, end_key_find_last_row |-> FALSE]]
        /\ SeqToBag(DeliveredRows) \sqsubseteq SetToBag(SourceRows)
        /\ hist.eof_seen => SeqToBag(DeliveredRows) = SetToBag(SourceRows)

\* C12 witness: a full scan of two kept segments with three rows between
\* them was drained, and a further next_row call reported eof again
C12_Witness ==
    /\ Len(params.start_key) = 0 /\ InitSucceeded
    /\ Len(reader._data_sources) = 2
    /\ Len(hist.seeks) = 2
    /\ Len(hist.delivered) = 3
    /\ hist.eof_seen
    /\ hist.delivered_at_eof = 3
    /\ hist.last = [op |-> "next_row", res |-> OLAP_SUCCESS, eof |-> TRUE]

(***************************************************************************)
(* C13.                                                                     *)
(***************************************************************************)
\* the physical rows of the first n output rows, in the order they were
\* absorbed
RECURSIVE AbsorbedRows(_)
AbsorbedRows(n) ==
    IF n = 0 THEN <<>> ELSE AbsorbedRows(n - 1) \o hist.groups[n].rows

\* C13: on an AGG_KEYS tablet read with aggregation = true every next_row
\* call that returns a row returns exactly one, built from its first row and
\* at most doris_scanner_row_num + 1 rows folded into it; the output rows
\* take the rows the CollectIterator hands out in order, each once, so a call
\* starts where the call before stopped; and an output row with fewer folded
\* rows than the cap ends only where the range ends or the key changes.
C13_AggRowCap ==
    (tablet.keys_type = "AGG_KEYS" /\ reader._aggregation /\ InitSucceeded) =>
        /\ \A i \in 1..Len(hist.groups) :
               LET g == hist.groups[i]
                   e == Len(AbsorbedRows(i))
               IN  /\ g.returned
                   /\ g.merged_count <= doris_scanner_row_num + 1
                   /\ Len(g.rows) = g.merged_count + 1
                   /\ (/\ g.merged_count <= doris_scanner_row_num
                       /\ KeyReturned
                       /\ e < Len(hist.delivered)
                       /\ hist.delivered[e + 1].range = g.range) =>
                          hist.delivered[e + 1].row.key # g.key
        /\ Len(AbsorbedRows(Len(hist.groups))) <= Len(hist.delivered)
        /\ AbsorbedRows(Len(hist.groups))
               = SubSeq(DeliveredRows, 1, Len(AbsorbedRows(Len(hist.groups))))
        /\ (hist.last.op = "next_row" /\ hist.last.res = OLAP_SUCCESS /\ ~hist.eof_seen) =>
               hist.groups # <<>>

\* C13 witness: three rows of one key were returned as a capped row and,
\* by the next call, a second row of the same key
C13_Witness ==
    /\ tablet.keys_type = "AGG_KEYS" /\ reader._aggregation /\ InitSucceeded
    /\ MergeMode /\ KeyReturned
    /\ Len(hist.groups) = 2
    /\ hist.groups[1].key = hist.groups[2].key
    /\ hist.groups[1].range = hist.groups[2].range
    /\ hist.groups[1].merged_count = doris_scanner_row_num + 1
    /\ Len(hist.delivered) = doris_scanner_row_num + 3
    /\ hist.eof_seen

(***************************************************************************)
(* C14.                                                                     *)
(***************************************************************************)
\* the rows of the segments presented to the Reader
PresentedRows == SeqSum([s \in 1..Len(tablet.segs) |-> num_rows(tablet, s)])

\* a full-tablet scan that has reported eof
FullScanDrained ==
    /\ Len(params.start_key) = 0
    /\ InitSucceeded
    /\ hist.eof_seen
    /\ pc # "crashed"

\* C14 as stated: after a full-tablet scan is drained to eof,
\* rows_stats_filtered + rows_del_filtered + the number of rows the
\* CollectIterator handed out equals the sum of num_rows over the segments
\* presented to the Reader, for every keys_type.
C14_RowConservation ==
    FullScanDrained =>
        reader._stats.rows_stats_filtered + reader._stats.rows_del_filtered
            + Len(hist.delivered) = PresentedRows

\* C14 amended: the same sum equals the rows presented plus the number of
\* output rows a UNIQUE_KEYS scan dropped as deleted, each of which is
\* counted into rows_del_filtered in addition to its physical rows.
C14_RowConservationWithDropped ==
    FullScanDrained =>
        reader._stats.rows_stats_filtered + reader._stats.rows_del_filtered
            + Len(hist.delivered) = PresentedRows + Len(Dropped)

\* C14 witness: a drained full scan in which one segment was pruned by its
\* statistics and rows of the other were filtered or dropped as deleted
C14_Witness ==
    /\ FullScanDrained
    /\ reader._stats.rows_stats_filtered > 0
    /\ reader._stats.rows_del_filtered > 0
    /\ Len(hist.delivered) > 0

(***************************************************************************)
(* C15.                                                                     *)
(***************************************************************************)
\* _acquire_data_sources has run through its loop
Acquired == reader._collect_iter # NULL

\* a segment with rows that delta pruning rules out, and one that the loaded
\* delete predicates cover wholly
DeltaPruned(s) == num_rows(tablet, s) # 0 /\ tablet.segs[s].stats_pruned
DeleteSatisfied(s) ==
    /\ num_rows(tablet, s) # 0
    /\ ~tablet.segs[s].stats_pruned
    /\ delete_pruning_filter(tablet, [delete_handler |-> LoadedDeleteConds], s) = DEL_SATISFIED

\* C15: a segment ruled out by delta pruning or found DEL_SATISFIED is not
\* in _data_sources, is never seeked and no row of it is handed out;
\* rows_stats_filtered is the sum of num_rows over the delta-pruned segments,
\* and rows_del_filtered is the sum of num_rows over the DEL_SATISFIED
\* segments plus the rows the cursors skipped and the output rows dropped.
C15_PrunedSegments ==
    Acquired =>
        /\ \A s \in 1..Len(tablet.segs) :
               (DeltaPruned(s) \/ DeleteSatisfied(s)) =>
                   /\ ~InSeq(s, reader._data_sources)
                   /\ \A j \in 1..Len(hist.seeks) : hist.seeks[j].seg # s
                   /\ \A j \in 1..Len(hist.delivered) : hist.delivered[j].row.seg # s
        /\ reader._stats.rows_stats_filtered =
               SeqSum([s \in 1..Len(tablet.segs) |->
                          IF DeltaPruned(s) THEN num_rows(tablet, s) ELSE 0])
        /\ reader._stats.rows_del_filtered =
               SeqSum([s \in 1..Len(tablet.segs) |->
                          IF DeleteSatisfied(s) THEN num_rows(tablet, s) ELSE 0])
                   + hist.cursor_filtered + Len(Dropped)

\* C15 witness: of two segments one was ruled out by delta pruning and the
\* other found DEL_SATISFIED; the scan reported eof with nothing read
C15_Witness ==
    /\ Acquired
    /\ Len(tablet.segs) = 2
    /\ DeltaPruned(1) /\ DeleteSatisfied(2)
    /\ reader._stats.rows_stats_filtered = num_rows(tablet, 1)
    /\ reader._stats.rows_del_filtered = num_rows(tablet, 2)
    /\ hist.seeks = <<>>
    /\ hist.eof_seen

(***************************************************************************)
(* C16.                                                                     *)
(***************************************************************************)
\* a row the cursor has to skip: its segment was found DEL_PARTIAL_SATISFIED
\* and a loaded delete predicate removes the row at the segment's version
CursorFilters(r) ==
    /\ reader.delete_status[r.seg] = DEL_PARTIAL_SATISFIED
    /\ is_filter_data(LoadedDeleteConds, SegVersion(tablet, r.seg), r)

\* the rows of the kept segments
KeptRows == UNION {Range(SegRows(tablet, s)) : s \in KeptSegs}

\* C16: a row of a DEL_PARTIAL_SATISFIED segment that is_filter_data removes
\* is never the current row of a cursor and is never handed out; when a full
\* scan is drained every such row of the kept segments has added exactly 1
\* to rows_del_filtered, and every other row of the kept segments, whatever
\* the status of its segment, was handed out.
C16_CursorFilter ==
    (Acquired /\ pc # "crashed") =>
        /\ \A j \in 1..Len(hist.delivered) : ~CursorFilters(hist.delivered[j].row)
        /\ \A j \in 1..Len(reader.ci._children) :
               reader.ci._children[j].has_cur =>
                   ~CursorFilters(ChildCtx_current_row(reader.ci._children[j]))
        /\ FullScanDrained =>
               /\ reader._stats.rows_del_filtered =
                      SeqSum([s \in 1..Len(tablet.segs) |->
                                 IF DeleteSatisfied(s) THEN num_rows(tablet, s) ELSE 0])
                          + Cardinality({r \in KeptRows : CursorFilters(r)})
                          + Len(Dropped)
               /\ SeqToBag(DeliveredRows) = SetToBag({r \in KeptRows : ~CursorFilters(r)})

\* C16 witness: a drained full scan of two DEL_PARTIAL_SATISFIED segments in
\* which the cursors skipped a row of each and handed out the others
C16_Witness ==
    /\ Acquired /\ FullScanDrained
    /\ Len(reader._data_sources) = 2
    /\ \A s \in 1..2 : reader.delete_status[s] = DEL_PARTIAL_SATISFIED
    /\ hist.cursor_filtered = 2
    /\ reader._stats.rows_del_filtered = 2
    /\ Len(hist.delivered) = 2 * MaxKey - 2


\* C17: DATA_EOF never reaches the caller.  After init and after next_row
\* (each of the three policies) the status is not DATA_EOF; a call during
\* which a segment seek, a child cursor or the CollectIterator reported
\* DATA_EOF returns OK unless a segment read failed in the same call; and a
\* next_row that returns OK without eof has produced an output row, so the
\* end of the data is told by eof = true alone.
C17_DataEofNotSurfaced ==
    hist.last.op \in {"init", "next_row"} =>
        /\ hist.last.res # OLAP_ERR_DATA_EOF
        /\ hist.data_eof => hist.last.res \in {OLAP_SUCCESS, OLAP_ERR_IO}
        /\ (hist.last.op = "next_row" /\ hist.last.res = OLAP_SUCCESS /\ ~hist.last.eof)
               => /\ hist.groups # <<>>
                  /\ hist.groups[Len(hist.groups)].returned

\* a next_row during which DATA_EOF was reported inside the Reader and that
\* returned OK with eof = true
C17_Witness ==
    /\ hist.last = [op |-> "next_row", res |-> OLAP_SUCCESS, eof |-> TRUE]
    /\ hist.data_eof
    /\ hist.seeks # <<>>


\* C18 as stated: after a successful init with params.return_columns empty
\* the Reader's return_columns is the list of all schema columns, whatever
\* the reader type.
C18_EmptyMeansAllColumns ==
    (InitSucceeded /\ params.return_columns = <<>>)
        => reader._return_columns = SchemaCols

\* C18, amended: after a successful init with params.return_columns empty,
\* a Reader of a type other than QUERY returns all schema columns; a QUERY
\* Reader returns only the columns of the loaded delete conditions when
\* aggregation is set, and no column otherwise.
C18_EmptyMeansAllColumnsUnlessQuery ==
    (InitSucceeded /\ params.return_columns = <<>>)
        => reader._return_columns =
               IF params.reader_type # "READER_QUERY" THEN SchemaCols
               ELSE IF params.aggregation THEN del_cond_columns(LoadedDeleteConds)
               ELSE <<>>

\* a schema change Reader that was given no return columns and returns both
C18_Witness ==
    /\ InitSucceeded
    /\ params.return_columns = <<>>
    /\ params.reader_type = "READER_ALTER_TABLE"
    /\ reader._return_columns = <<0, 1>>


\* return_columns has no duplicate and holds schema column ids only
WellFormedColumns(cols) ==
    /\ \A i, j \in 1..Len(cols) : cols[i] = cols[j] => i = j
    /\ \A i \in 1..Len(cols) : InSeq(cols[i], SchemaCols)

\* return_columns holds every column of the loaded delete conditions
HoldsDeleteColumns(cols) ==
    \A c \in Range(del_cond_columns(LoadedDeleteConds)) : InSeq(c, cols)

\* C19 as stated: after a successful init with aggregation = true,
\* return_columns contains every column of a loaded delete condition,
\* whatever the reader type, has no duplicate and holds schema column ids.
C19_DeleteColumnsReturned ==
    (InitSucceeded /\ params.aggregation)
        => /\ HoldsDeleteColumns(reader._return_columns)
           /\ WellFormedColumns(reader._return_columns)

\* C19, amended: after a successful init with aggregation = true,
\* return_columns has no duplicate and holds schema column ids, and it
\* contains every column of a loaded delete condition when the Reader is a
\* QUERY Reader or was given no return columns; a CHECKSUM Reader that was
\* given return columns keeps exactly those.
C19_DeleteColumnsReturnedToQuery ==
    (InitSucceeded /\ params.aggregation)
        => /\ WellFormedColumns(reader._return_columns)
           /\ (params.reader_type = "READER_QUERY" \/ params.return_columns = <<>>)
                  => HoldsDeleteColumns(reader._return_columns)
           /\ (params.reader_type = "READER_CHECKSUM" /\ params.return_columns # <<>>)
                  => reader._return_columns = params.return_columns

\* an aggregating QUERY that asked for the value column only, over a tablet
\* with a delete condition on the key column
C19_Witness ==
    /\ InitSucceeded
    /\ params.aggregation
    /\ params.reader_type = "READER_QUERY"
    /\ params.return_columns = <<1>>
    /\ LoadedDeleteConds # {}
    /\ reader._return_columns = <<1, 0>>


\* the columns of the pushed conditions
ConditionColumns == {params.conditions[i].column : i \in 1..Len(params.conditions)}

\* the largest field count over the start and end keys the Reader loaded
MaxKeyLen ==
    IF params.start_key = <<>> THEN 0
    ELSE LET counts == {field_count(k) : k \in Range(params.start_key)
                                              \cup Range(params.end_key)}
         IN  CHOOSE n \in counts : \A m \in counts : m <= n

ClaimedEqualIndex ==
    LET pairs == 1..Min(Len(params.start_key), Len(params.end_key))
        ms == {m \in 0..(Len(tablet.schema) - 1) :
                  \E i \in pairs :
                      /\ m < Len(params.start_key[i])
                      /\ m < Len(params.end_key[i])
                      /\ \A c \in 0..m : params.start_key[i][c + 1] = params.end_key[i][c + 1]}
    IN  IF ms = {} THEN -1 ELSE CHOOSE m \in ms : \A n \in ms : n <= m

\* C21: after init, load_bf_columns is exactly the set of the columns with
\* an OP_EQ condition or an OP_IN condition of fewer than
\* MAX_OP_IN_FIELD_NUM operands that carry a bloom filter and lie above m,
\* or at m when the column is VARCHAR or HLL and m + 1 <= num_short_key_fields.
C21_LoadBfColumns ==
    pc = "bf_inited" =>
        reader._load_bf_columns =
            {c \in 0..(Len(tablet.schema) - 1) :
                /\ \E i \in 1..Len(params.conditions) :
                       /\ params.conditions[i].column = c
                       /\ \/ cond_op(params.conditions[i]) = "OP_EQ"
                          \/ /\ cond_op(params.conditions[i]) = "OP_IN"
                             /\ params.conditions[i].operands < MAX_OP_IN_FIELD_NUM
                /\ tablet.schema[c + 1].is_bf_column
                /\ \/ c > ClaimedEqualIndex
                   \/ /\ c = ClaimedEqualIndex
                      /\ tablet.schema[c + 1].type \in {"OLAP_FIELD_TYPE_VARCHAR",
                                                        "OLAP_FIELD_TYPE_HLL"}
                      /\ ClaimedEqualIndex + 1 <= tablet.num_short_key_fields}


\* C22: the tablet header read lock is never held across row production.
\* Whenever init, next_row, close or the destructor has returned, every
\* obtain_header_rdlock of init has been matched by a release_header_lock,
\* on the success path and on every failure path, and no segment was sought
\* while the lock was held.
C22_HeaderLockReleased ==
    /\ reader.header_lock.held = 0
    /\ ~hist.seek_under_lock

\* a scan that took the lock for the delete conditions and for the segments
\* and then produced a row
C22_Witness ==
    /\ reader.header_lock.obtained = 2
    /\ hist.last.op = "next_row"
    /\ hist.groups # <<>>
    /\ reader.header_lock.held = 0


\* C23: eof ends the scan.  Once a next_row has returned eof = true, every
\* later next_row returns eof = true as well and no further row is taken
\* from the segments or handed to the caller.
C23_EofIsFinal ==
    hist.eof_seen =>
        /\ Len(hist.groups) = hist.groups_at_eof
        /\ Len(hist.delivered) = hist.delivered_at_eof
        /\ hist.last.op = "next_row" => hist.last.eof


\* C24: once the CollectIterator exists it runs in concat mode
\* (_merge = false) if and only if the reader type is QUERY and aggregation
\* is set or the tablet is DUP_KEYS; in every other case it merges.
C24_ConcatModeIff ==
    Acquired =>
        (~reader.ci._merge <=>
            /\ params.reader_type = "READER_QUERY"
            /\ (params.aggregation \/ tablet.keys_type = "DUP_KEYS"))

\* an aggregating QUERY over an AGG_KEYS tablet that produced a row without
\* merging its segments
C24_Witness ==
    /\ InitSucceeded
    /\ ~reader.ci._merge
    /\ tablet.keys_type = "AGG_KEYS"
    /\ params.reader_type = "READER_QUERY"
    /\ params.aggregation
    /\ Len(tablet.segs) = 2
    /\ hist.groups # <<>>


\* the place of a row in its segment
PosInSeg(r) == CHOOSE i \in 1..Len(tablet.segs[r.seg].keys) : SegRow(tablet, r.seg, i) = r

\* the iteration over scan range i is over: a later range was attached or
\* next_row reported eof
RangeDone(i) ==
    \/ hist.eof_seen
    \/ \E n \in 1..(Len(hist.attached) - 1) : hist.attached[n] = i

\* C25: in concat mode the rows of one scan range are handed out child by
\* child, in the order the segments were added: within a range the segments
\* of the rows handed out never go back and the rows of one segment come in
\* segment order, every row of an earlier segment has been handed out before
\* the first row of a later one, and when the iteration over a range is
\* over, every row of every segment in the range was handed out.
C25_ConcatChildByChild ==
    (InitSucceeded /\ ~MergeMode /\ pc \in {"inited", "closed", "destroyed"}) =>
        LET d == hist.delivered
        IN  /\ \A i, j \in 1..Len(d) :
                   (i < j /\ d[i].range = d[j].range) =>
                       \/ d[i].row.seg < d[j].row.seg
                       \/ /\ d[i].row.seg = d[j].row.seg
                          /\ PosInSeg(d[i].row) < PosInSeg(d[j].row)
            /\ \A j \in 1..Len(d) :
                   \A x \in SourceRows :
                       (x.seg < d[j].row.seg /\ InScanRange(x.key, d[j].range)) =>
                           \E i \in 1..(j - 1) : d[i] = [row |-> x, range |-> d[j].range]
            /\ \A n \in 1..Len(hist.attached) :
                   RangeDone(hist.attached[n]) =>
                       \A x \in SourceRows :
                           InScanRange(x.key, hist.attached[n]) =>
                               \E i \in 1..Len(d) :
                                   d[i] = [row |-> x, range |-> hist.attached[n]]

\* a concat scan of two segments that handed out a row of the second segment
\* after both rows of the first
C25_Witness ==
    /\ InitSucceeded /\ ~MergeMode
    /\ Len(hist.delivered) = 3
    /\ hist.delivered[1].row.seg = 1
    /\ hist.delivered[2].row.seg = 1
    /\ hist.delivered[3].row.seg = 2
    /\ hist.delivered[3].row.key < hist.delivered[2].row.key

(***************************************************************************)
(* C26.                                                                     *)
(***************************************************************************)
\* the rows of its segment that the j-th prepare_block_read handed over
SeekRows(j) ==
    LET k == hist.seeks[j]
    IN  {r \in Range(SegRows(tablet, k.seg)) :
            InBounds(r.key, k.start_key, k.find_last_row, k.end_key,
                     k.end_key_find_last_row)}

\* the cursor over these rows has no first row: the delete predicates remove
\* every one of them
NoInitialRow(j) == \A r \in SeekRows(j) : CursorFilters(r)

\* C26 as stated: add_child on a segment whose cursor has no initial current
\* row leaves the heap, the children list and the current child unchanged
\* and returns OLAP_SUCCESS, not OLAP_ERR_DATA_EOF.
C26_EmptyChildReturnsOk ==
    \A n \in 1..Len(hist.add_child) :
        NoInitialRow(hist.add_child[n].seek) =>
            /\ hist.add_child[n].unchanged
            /\ hist.add_child[n].res = OLAP_SUCCESS

\* C26 amended: add_child on a segment whose cursor has no initial current
\* row leaves the heap, the children list and the current child unchanged
\* and returns the OLAP_ERR_DATA_EOF of the cursor's init, which the attach
\* loop does not take for an error: it goes on to the next segment.
\* With a first row add_child returns OLAP_SUCCESS and the collection holds
\* the new child.
C26_EmptyChildDiscarded ==
    /\ \A n \in 1..Len(hist.add_child) :
           IF NoInitialRow(hist.add_child[n].seek)
           THEN /\ hist.add_child[n].unchanged
                /\ hist.add_child[n].res = OLAP_ERR_DATA_EOF
           ELSE /\ ~hist.add_child[n].unchanged
                /\ hist.add_child[n].res = OLAP_SUCCESS
    /\ \A n \in 1..Len(hist.add_child) :
           LET j == hist.add_child[n].seek
           IN  (/\ NoInitialRow(j)
                /\ hist.seeks[j].seg # reader._data_sources[Len(reader._data_sources)]) =>
                   /\ Len(hist.seeks) > j
                   /\ hist.seeks[j + 1].range = hist.seeks[j].range

\* a scan of key 1 alone whose init succeeded although the delete predicates
\* remove key 1 from both segments: both cursors were discarded with
\* OLAP_ERR_DATA_EOF and nothing was attached
C26_Witness ==
    /\ pc = "inited" /\ hist.last = [op |-> "init", res |-> OLAP_SUCCESS, eof |-> FALSE]
    /\ Len(hist.add_child) = 2
    /\ \A n \in 1..2 : /\ NoInitialRow(hist.add_child[n].seek)
                        /\ hist.add_child[n].res = OLAP_ERR_DATA_EOF
                        /\ hist.add_child[n].unchanged
    /\ reader.ci._children = <<>>
    /\ reader.ci._cur_child = NULL

(***************************************************************************)
(* C27.                                                                     *)
(***************************************************************************)
\* C27: in merge mode, after every add_child, every next that returns OK or
\* DATA_EOF, and every clear, the heap holds each child cursor at most once,
\* every heap entry has a current row, and the current child is the heap top
\* when the heap is non-empty and null when it is empty.  hist.heap_ok is
\* the conjunction of HeapInvariant over all these calls; between two calls
\* of the caller the CollectIterator of the Reader satisfies it as well.
C27_MergeHeapInvariant ==
    /\ hist.heap_ok
    /\ HeapInvariant(tablet, reader.ci)

\* a merge scan of two segments under way: a row was handed out, both
\* children are on the heap and the second one is the top
C27_Witness ==
    /\ MergeMode /\ pc = "inited"
    /\ hist.heap_ok
    /\ Len(hist.delivered) > 1
    /\ BagCardinality(reader.ci._heap) = 2
    /\ reader.ci._cur_child = 2

(***************************************************************************)
(* C28.                                                                     *)
(***************************************************************************)
\* C28: for every scan range the bounds passed to each segment's
\* prepare_block_read follow the table.  The start key is the range's start
\* key; range gt gives find_last_row (find_first_equal) = true, ge and eq
\* give false; for gt and ge the end key is the range's end key with
\* end_key_find_last_row (find_last_equal) = false under lt and true under
\* le, and absent when end_keys is empty; eq gives end_key = start_key and
\* end_key_find_last_row = true whatever end_range and end_keys are.  The
\* full scan passes no bounds.
C28_SeekBounds ==
    \A j \in 1..Len(hist.seeks) :
        LET k == hist.seeks[j]
            i == k.range
        IN  IF i = 0
            THEN /\ k.start_key = NULL /\ k.end_key = NULL
                 /\ ~k.find_last_row /\ ~k.end_key_find_last_row
            ELSE /\ k.start_key = params.start_key[i]
                 /\ params.range \in {"gt", "ge", "eq"}
                 /\ k.find_last_row = (params.range = "gt")
                 /\ IF params.range = "eq"
                    THEN k.end_key = params.start_key[i] /\ k.end_key_find_last_row
                    ELSE IF params.end_key = <<>>
                    THEN k.end_key = NULL /\ ~k.end_key_find_last_row
                    ELSE /\ k.end_key = params.end_key[i]
                         /\ params.end_range \in {"lt", "le"}
                         /\ k.end_key_find_last_row = (params.end_range = "le")

\* an eq scan under end_range lt whose end key differs from its start key:
\* the segments were seeked with end_key = start_key, inclusive
C28_Witness ==
    /\ params.range = "eq" /\ params.end_range = "lt"
    /\ params.end_key # <<>>
    /\ params.end_key[1] # params.start_key[1]
    /\ Len(hist.seeks) = 2
    /\ \A j \in 1..2 : /\ hist.seeks[j].end_key = params.start_key[1]
                        /\ hist.seeks[j].end_key_find_last_row
                        /\ ~hist.seeks[j].find_last_row

(***************************************************************************)
(* C29.                                                                     *)
(***************************************************************************)
\* the state right after an init that reached the attach of the first of
\* the caller's scan ranges
InitAttachedRange ==
    /\ hist.last.op = "init" /\ pc # "crashed"
    /\ params.start_key # <<>>
    /\ hist.attached # <<>>

\* C29 as stated: with non-empty start_keys, a range token outside
\* {gt, ge, eq} or an end_range token outside {lt, le} makes the attach of
\* a scan range fail with READER_GET_ITERATOR_ERROR, and no segment is
\* seeked for that range.
C29_UnknownTokenFails ==
    (/\ InitAttachedRange
     /\ \/ params.range \notin {"gt", "ge", "eq"}
        \/ params.end_range \notin {"lt", "le"}) =>
        /\ hist.last.res = OLAP_ERR_READER_GET_ITERATOR_ERROR
        /\ hist.seeks = <<>>

\* the tokens the attach rejects: an unknown range, or an unknown end_range
\* next to end keys
TokenRejected ==
    \/ params.range \notin {"gt", "ge", "eq"}
    \/ params.end_key # <<>> /\ params.end_range \notin {"lt", "le"}

\* C29 amended: with non-empty start_keys, a range token outside
\* {gt, ge, eq}, or an end_range token outside {lt, le} when end_keys is not
\* empty, makes the attach of a scan range fail with
\* READER_GET_ITERATOR_ERROR, and no segment is seeked for that range; the
\* scan never gets past init.  With empty end_keys the end_range token is not
\* looked at, and an attach never fails with this status for another reason.
C29_RejectedTokenFails ==
    /\ InitAttachedRange =>
           (TokenRejected <=> hist.last.res = OLAP_ERR_READER_GET_ITERATOR_ERROR)
    /\ (params.start_key # <<>> /\ TokenRejected) =>
           /\ hist.seeks = <<>>
           /\ hist.delivered = <<>>
           /\ ~InitSucceeded

\* an init that failed with READER_GET_ITERATOR_ERROR on an unknown
\* end_range next to a known range and an end key, with no segment seeked
C29_Witness ==
    /\ InitAttachedRange
    /\ params.range = "ge" /\ params.end_range = "xx" /\ params.end_key # <<>>
    /\ hist.last.res = OLAP_ERR_READER_GET_ITERATOR_ERROR
    /\ hist.attached = <<1>>
    /\ hist.seeks = <<>>
    /\ pc = "init_failed"

(***************************************************************************)
(* C30.                                                                     *)
(***************************************************************************)
\* C30: for UNIQUE_KEYS, finalize_one_merge(value_cids) is applied to the
\* output row exactly once for every key group before the row is returned or
\* dropped, including when the group ends because the iterator reached end
\* of data rather than a key change.
C30_FinalizedOnce ==
    (tablet.keys_type = "UNIQUE_KEYS" /\ reader._next_row_func = "_unique_key_next_row") =>
        \A n \in 1..Len(hist.groups) : hist.groups[n].cursor.finalized = 1

(***************************************************************************)
(* C31.                                                                     *)
(***************************************************************************)
\* the physical rows the output rows absorbed, in the order of absorption,
\* each with the scan range it was read in
RECURSIVE Absorbed(_)
Absorbed(groups) ==
    IF groups = <<>> THEN <<>>
    ELSE [i \in 1..Len(Head(groups).rows) |->
             [row |-> Head(groups).rows[i], range |-> Head(groups).range]]
         \o Absorbed(Tail(groups))

\* the rows the CollectIterator handed to the Reader, without the one that
\* waits in _next_key
Consumed ==
    SubSeq(hist.delivered, 1,
           Len(hist.delivered) - (IF reader._next_key # NULL THEN 1 ELSE 0))

C32_NextKeyIsCurrentRow ==
    /\ hist.dcheck_ok
    /\ (mem.ci_deleted = 0 /\ reader._next_key # NULL) =>
           /\ reader._next_key = current_row(reader.ci)
           /\ reader._next_key \in 1..Len(reader.ci._children)
           /\ reader.ci._children[reader._next_key].has_cur
           /\ hist.delivered # <<>>
           /\ hist.delivered[Len(hist.delivered)].row = RowOf(reader.ci, reader._next_key)

\* a scan of several ranges in its second range: the children of the first
\* range were cleared, _next_key is the current row of a child of the second
C32_Witness ==
    /\ pc = "inited" /\ hist.last.op = "next_row"
    /\ hist.dcheck_ok
    /\ hist.range = 2
    /\ Len(hist.groups) >= 2
    /\ reader._next_key # NULL
    /\ reader._next_key = current_row(reader.ci)
    /\ hist.delivered[Len(hist.delivered)].range = 2

(***************************************************************************)
(* C33.                                                                     *)
(***************************************************************************)
\* C33: when start_keys is non-empty and end_keys is either empty (open
\* upper bound) or of the same length, no step of init (bloom-filter column
\* selection, key materialization) or of scan-range attachment reads
\* end_key[i] at an index i >= the number of end keys.  (The model counts
\* the elements from 1: the index of a read is at most Len(end_key).)
C33_EndKeyReadsInBounds ==
    (/\ params.start_key # <<>>
     /\ params.end_key = <<>> \/ Len(params.end_key) = Len(params.start_key)) =>
        \A r \in hist.end_key_reads : r.index <= Len(params.end_key)

(***************************************************************************)
(* C34.                                                                     *)
(***************************************************************************)
\* C34: termination.  With finitely many segments of finitely many rows,
\* finitely many scan ranges and no I/O error, every next_row call returns
\* and repeated next_row calls eventually return eof = true: from every
\* state in which the Reader is open for next_row, a caller that keeps
\* calling reaches a call that returns eof, unless it closes the Reader
\* before.
C34_Termination ==
    (pc = "inited") ~> (\/ hist.last.op = "next_row" /\ hist.last.eof
                        \/ pc \in {"closed", "destroyed", "crashed"})

\* a UNIQUE_KEYS scan of two ranges that returned eof after it had dropped a
\* key group as deleted and passed over a range without a row
C34_Witness ==
    /\ tablet.keys_type = "UNIQUE_KEYS" /\ pc = "inited"
    /\ hist.last = [op |-> "next_row", res |-> OLAP_SUCCESS, eof |-> TRUE]
    /\ Len(Dropped) >= 1
    /\ hist.attached = <<1, 2>>
    /\ \E i \in 1..2 :
           /\ (\E j \in 1..Len(hist.seeks) : hist.seeks[j].range = i)
           /\ (\A k \in 1..Len(hist.delivered) : hist.delivered[k].range # i)

====
